---- MODULE Spec2Model ----
(***************************************************************************)
(* Model of src/src/tools/ComposerTools.ts: the safe-mutation pipeline of  *)
(* the agent tools (writeToFile, replaceInFile, deleteNote, moveNote,      *)
(* listRecentFileOperations, undoFileOperation).                           *)
(*                                                                         *)
(* Texts are sequences of one-character strings, so that line endings,     *)
(* markers and trimming are computed character by character as the code    *)
(* computes them.                                                          *)
(***************************************************************************)
EXTENDS Integers, Sequences, FiniteSets, TLC

(***************************************************************************)
(* JavaScript string primitives used by the tools.                         *)
(***************************************************************************)

\* The characters /\s/ matches and String.prototype.trim strips, within the
\* alphabet of the model.
WhiteSpace == {" ", "\t", "\n", "\r"}

\* n copies of the character ch.
Rep(ch, n) == [i \in 1..n |-> ch]

SetMin(S) == CHOOSE i \in S : \A j \in S : i <= j

\* str.startsWith(s, i - 1): s occurs in c at the 1-based position i.
OccursAt(c, s, i) ==
    /\ i >= 1
    /\ i + Len(s) - 1 <= Len(c)
    /\ SubSeq(c, i, i + Len(s) - 1) = s

\* The positions at which s occurs in c.
Occurrences(c, s) == {i \in 1..(Len(c) - Len(s) + 1) : SubSeq(c, i, i + Len(s) - 1) = s}

\* String.prototype.includes
Includes(c, s) == Occurrences(c, s) # {}

\* String.prototype.trimEnd
RECURSIVE TrimEnd(_)
TrimEnd(s) ==
    IF s # <<>> /\ s[Len(s)] \in WhiteSpace THEN TrimEnd(SubSeq(s, 1, Len(s) - 1)) ELSE s

RECURSIVE TrimStart(_)
TrimStart(s) ==
    IF s # <<>> /\ s[1] \in WhiteSpace THEN TrimStart(Tail(s)) ELSE s

\* String.prototype.trim
Trim(s) == TrimEnd(TrimStart(s))

\* The matches a global replace visits: the leftmost occurrence at or after
\* `from`, then the leftmost one after its end, and so on (an empty pattern
\* advances by one character).
RECURSIVE MatchPositions(_, _, _)
MatchPositions(occ, step, from) ==
    LET rest == {i \in occ : i >= from}
    IN  IF rest = {} THEN <<>>
        ELSE LET i == SetMin(rest)
             IN  <<i>> \o MatchPositions(occ, step, i + step)

\* c with the matches at `pos` (each `n` characters long) replaced by what
\* sub[k] gives for the k-th of them.
RECURSIVE Splice(_, _, _, _, _, _)
Splice(c, pos, n, sub, k, from) ==
    IF k > Len(pos) THEN SubSeq(c, from, Len(c))
    ELSE SubSeq(c, from, pos[k] - 1) \o sub[k]
             \o Splice(c, pos, n, sub, k + 1, pos[k] + n)

\* str.replace(/s/g, r) for a literal pattern s and a replacement r that
\* holds no "$".
ReplaceLiteral(c, s, r) ==
    LET pos == MatchPositions(Occurrences(c, s), IF Len(s) = 0 THEN 1 ELSE Len(s), 1)
    IN  Splice(c, pos, Len(s), [k \in 1..Len(pos) |-> r], 1, 1)

\* GetSubstitution of ECMAScript for a string pattern (no capture groups):
\* in the replacement text "$$" stands for "$", "$&" for the matched text,
\* "$" with a backtick for the text before the match and "$'" for the text
\* after it; any other "$" is literal. The backtick, which a TLA+ string
\* cannot hold, is written "BACKTICK".
RECURSIVE GetSubstitution(_, _, _, _)
GetSubstitution(r, matched, before, after) ==
    IF r = <<>> THEN <<>>
    ELSE IF r[1] = "$" /\ Len(r) >= 2 /\ r[2] \in {"$", "&", "BACKTICK", "'"}
         THEN (CASE r[2] = "$" -> <<"$">>
                 [] r[2] = "&" -> matched
                 [] r[2] = "BACKTICK" -> before
                 [] OTHER      -> after)
              \o GetSubstitution(SubSeq(r, 3, Len(r)), matched, before, after)
         ELSE <<r[1]>> \o GetSubstitution(Tail(r), matched, before, after)

\* Mutant of replaceAll: String.prototype.replace with a string pattern,
\* which replaces the first occurrence only.
replaceAll_FirstOnly(c, s, r) ==
    LET n   == Len(s)
        all == MatchPositions(Occurrences(c, s), IF n = 0 THEN 1 ELSE n, 1)
        pos == SubSeq(all, 1, IF Len(all) > 0 THEN 1 ELSE 0)
        sub == [k \in 1..Len(pos) |->
                   GetSubstitution(r, s, SubSeq(c, 1, pos[k] - 1),
                                   SubSeq(c, pos[k] + n, Len(c)))]
    IN  Splice(c, pos, n, sub, 1, 1)

\* String.prototype.replaceAll(s, r) with a string pattern and a string
\* replacement.
replaceAll(c, s, r) ==
    LET n   == Len(s)
        pos == MatchPositions(Occurrences(c, s), IF n = 0 THEN 1 ELSE n, 1)
        sub == [k \in 1..Len(pos) |->
                   GetSubstitution(r, s, SubSeq(c, 1, pos[k] - 1),
                                   SubSeq(c, pos[k] + n, Len(c)))]
    IN  Splice(c, pos, n, sub, 1, 1)

\* String.prototype.replace(s, r) with a string pattern: the first
\* occurrence only.
replace(c, s, r) ==
    IF ~Includes(c, s) THEN c
    ELSE LET i == SetMin(Occurrences(c, s))
         IN  SubSeq(c, 1, i - 1)
               \o GetSubstitution(r, s, SubSeq(c, 1, i - 1), SubSeq(c, i + Len(s), Len(c)))
               \o SubSeq(c, i + Len(s), Len(c))

\* String.prototype.split(sep) for a non-empty separator.
RECURSIVE split(_, _)
split(c, sep) ==
    IF ~Includes(c, sep) THEN <<c>>
    ELSE LET i == SetMin(Occurrences(c, sep))
         IN  <<SubSeq(c, 1, i - 1)>> \o split(SubSeq(c, i + Len(sep), Len(c)), sep)

\* Array.prototype.join(sep)
RECURSIVE join(_, _)
join(parts, sep) ==
    IF parts = <<>> THEN <<>>
    ELSE IF Len(parts) = 1 THEN parts[1]
    ELSE parts[1] \o sep \o join(Tail(parts), sep)

(***************************************************************************)
(* Line endings.                                                           *)
(***************************************************************************)

\* normalizeLineEndings: CRLF to LF, then any remaining CR to LF.
normalizeLineEndings(text) ==
    ReplaceLiteral(ReplaceLiteral(text, <<"\r", "\n">>, <<"\n">>), <<"\r">>, <<"\n">>)

\* (content.match(/\r\n/g) || []).length
crlfCount(content) ==
    Cardinality({i \in 1..(Len(content) - 1) : content[i] = "\r" /\ content[i + 1] = "\n"})

\* Mutant of lfCount: /\n/g, without the lookbehind, counts the LF of every
\* CRLF as well.
lfCount_NoLookbehind(content) ==
    Cardinality({i \in 1..Len(content) : content[i] = "\n"})

\* (content.match(/(?<!\r)\n/g) || []).length
lfCount(content) ==
    Cardinality({i \in 1..Len(content) :
                    content[i] = "\n" /\ (i = 1 \/ content[i - 1] # "\r")})

\* usesCrlf: the predominant line ending style of a text.
usesCrlf(content) == crlfCount(content) > lfCount(content)

\* The conversion back to the detected style at the end of
\* replaceWithLineEndingAwareness.
restoreLineEndings(resultNormalized, crlf) ==
    IF crlf THEN ReplaceLiteral(resultNormalized, <<"\n">>, <<"\r", "\n">>)
    ELSE resultNormalized

replaceWithLineEndingAwareness(content, searchText, replaceText) ==
    LET normalizedContent     == normalizeLineEndings(content)
        normalizedSearchText  == normalizeLineEndings(searchText)
        normalizedReplaceText == normalizeLineEndings(replaceText)
        resultNormalized      == replaceAll(normalizedContent, normalizedSearchText,
                                            normalizedReplaceText)
    IN  restoreLineEndings(resultNormalized, usesCrlf(content))

(***************************************************************************)
(* parseSearchReplaceBlocks: the block grammar, matched as the regular     *)
(* expression engine matches it (leftmost match, backtracking in priority  *)
(* order: greedy quantifiers longest first, lazy groups shortest first).   *)
(***************************************************************************)

SEARCH_WORD  == <<"S", "E", "A", "R", "C", "H">>
REPLACE_WORD == <<"R", "E", "P", "L", "A", "C", "E">>

\* The least number of marker characters: the 3 of -{3,}, ={3,} and \+{3,}.
MinMarkerRun == 3

\* Mutant of SEARCH_MARKER: no white space between the dashes and SEARCH.
SEARCH_MARKER_NoSpace ==
    << [k |-> "run", set |-> {"-"}, min |-> MinMarkerRun],
       [k |-> "lit", s |-> SEARCH_WORD],
       [k |-> "run", set |-> WhiteSpace, min |-> 0],
       [k |-> "optnl"] >>

\* SEARCH_MARKER  /-{3,}\s*SEARCH\s*(?:\r?\n)?/
SEARCH_MARKER ==
    << [k |-> "run", set |-> {"-"}, min |-> MinMarkerRun],
       [k |-> "run", set |-> WhiteSpace, min |-> 0],
       [k |-> "lit", s |-> SEARCH_WORD],
       [k |-> "run", set |-> WhiteSpace, min |-> 0],
       [k |-> "optnl"] >>

\* SEPARATOR  /(?:\r?\n)?={3,}\s*(?:\r?\n)?/
SEPARATOR ==
    << [k |-> "optnl"],
       [k |-> "run", set |-> {"="}, min |-> MinMarkerRun],
       [k |-> "run", set |-> WhiteSpace, min |-> 0],
       [k |-> "optnl"] >>

\* REPLACE_MARKER  /(?:\r?\n)?\+{3,}\s*REPLACE/
REPLACE_MARKER ==
    << [k |-> "optnl"],
       [k |-> "run", set |-> {"+"}, min |-> MinMarkerRun],
       [k |-> "run", set |-> WhiteSpace, min |-> 0],
       [k |-> "lit", s |-> REPLACE_WORD] >>

\* blockRegex: the three markers around the two lazy groups ([\s\S]*?).
blockRegex ==
    SEARCH_MARKER \o <<[k |-> "group", g |-> 1]>> \o SEPARATOR
                  \o <<[k |-> "group", g |-> 2]>> \o REPLACE_MARKER

NoMatch == [ok |-> FALSE]

\* The length of the longest run of characters of `set` in d from position pos.
RECURSIVE RunLength(_, _, _)
RunLength(d, set, pos) ==
    IF pos <= Len(d) /\ d[pos] \in set THEN 1 + RunLength(d, set, pos + 1) ELSE 0

\* MatchFrom(d, re, t, pos, g1, g2): the match of the tokens t.. of re against
\* d from position pos, the first one in the engine's priority order, with
\* the groups captured so far; `end` is the position after the match.
RECURSIVE MatchFrom(_, _, _, _, _, _)
RECURSIVE TryRun(_, _, _, _, _, _, _)
RECURSIVE TryGroup(_, _, _, _, _, _, _)

\* A greedy run X{min,}: n characters, then fewer.
TryRun(d, re, t, pos, g1, g2, n) ==
    IF n < re[t].min THEN NoMatch
    ELSE LET m == MatchFrom(d, re, t + 1, pos + n, g1, g2)
         IN  IF m.ok THEN m ELSE TryRun(d, re, t, pos, g1, g2, n - 1)

\* A lazy group ([\s\S]*?): n characters, then more.
TryGroup(d, re, t, pos, g1, g2, n) ==
    IF pos + n - 1 > Len(d) THEN NoMatch
    ELSE LET text == SubSeq(d, pos, pos + n - 1)
             m    == IF re[t].g = 1
                     THEN MatchFrom(d, re, t + 1, pos + n, text, g2)
                     ELSE MatchFrom(d, re, t + 1, pos + n, g1, text)
         IN  IF m.ok THEN m ELSE TryGroup(d, re, t, pos, g1, g2, n + 1)

MatchFrom(d, re, t, pos, g1, g2) ==
    IF t > Len(re) THEN [ok |-> TRUE, end |-> pos, g1 |-> g1, g2 |-> g2]
    ELSE CASE re[t].k = "lit" ->
                IF OccursAt(d, re[t].s, pos)
                THEN MatchFrom(d, re, t + 1, pos + Len(re[t].s), g1, g2)
                ELSE NoMatch
           [] re[t].k = "run" ->
                TryRun(d, re, t, pos, g1, g2, RunLength(d, re[t].set, pos))
           [] re[t].k = "optnl" ->
                \* (?:\r?\n)? : CR LF, else LF alone, else nothing
                LET crlf == IF OccursAt(d, <<"\r", "\n">>, pos)
                            THEN MatchFrom(d, re, t + 1, pos + 2, g1, g2) ELSE NoMatch
                    lf   == IF OccursAt(d, <<"\n">>, pos)
                            THEN MatchFrom(d, re, t + 1, pos + 1, g1, g2) ELSE NoMatch
                IN  IF crlf.ok THEN crlf
                    ELSE IF lf.ok THEN lf
                    ELSE MatchFrom(d, re, t + 1, pos, g1, g2)
           [] OTHER -> TryGroup(d, re, t, pos, g1, g2, 0)

\* blockRegex.exec(diff) with lastIndex = from - 1: the leftmost match
\* starting at or after `from`.
RECURSIVE Exec(_, _, _)
Exec(d, re, from) ==
    IF from > Len(d) THEN NoMatch
    ELSE LET m == MatchFrom(d, re, 1, from, <<>>, <<>>)
         IN  IF m.ok THEN m ELSE Exec(d, re, from + 1)

\* The while loop of parseSearchReplaceBlocks from lastIndex = from - 1.
RECURSIVE ParseFrom(_, _)
ParseFrom(diff, from) ==
    LET match == Exec(diff, blockRegex, from)
    IN  IF ~match.ok THEN <<>>
        ELSE <<[searchText |-> Trim(match.g1), replaceText |-> Trim(match.g2)]>>
                 \o ParseFrom(diff, match.end)

\* Mutant of parseSearchReplaceBlocks: the two groups are kept untrimmed.
RECURSIVE ParseFrom_NoTrim(_, _)
ParseFrom_NoTrim(diff, from) ==
    LET match == Exec(diff, blockRegex, from)
    IN  IF ~match.ok THEN <<>>
        ELSE <<[searchText |-> match.g1, replaceText |-> match.g2]>>
                 \o ParseFrom_NoTrim(diff, match.end)

parseSearchReplaceBlocks_NoTrim(diff) == ParseFrom_NoTrim(diff, 1)

parseSearchReplaceBlocks(diff) == ParseFrom(diff, 1)

(***************************************************************************)
(* replaceInFile: the loop over the parsed blocks.                         *)
(***************************************************************************)

\* Mutant of ApplyFrom: a block whose search text is not found is skipped
\* (continue) instead of ending the call (return).
RECURSIVE ApplyFrom_SkipNotFound(_, _, _, _)
ApplyFrom_SkipNotFound(blocks, i, modifiedContent, changesApplied) ==
    IF i > Len(blocks)
    THEN [ok |-> TRUE, modifiedContent |-> modifiedContent,
          changesApplied |-> changesApplied]
    ELSE LET afterReplace ==
                 replaceWithLineEndingAwareness(modifiedContent, blocks[i].searchText,
                                                blocks[i].replaceText)
         IN  ApplyFrom_SkipNotFound(blocks, i + 1, afterReplace,
                                    IF afterReplace # modifiedContent
                                    THEN changesApplied + 1 ELSE changesApplied)

\* One pass of the body of `for (const block of searchReplaceBlocks)`, then
\* the passes after it: the blocks from the i-th on are applied to the
\* working copy modifiedContent. The loop ends either past the last block
\* (ok) or at the return of the block whose search text is not found.
RECURSIVE ApplyFrom(_, _, _, _)
ApplyFrom(blocks, i, modifiedContent, changesApplied) ==
    IF i > Len(blocks)
    THEN [ok |-> TRUE, modifiedContent |-> modifiedContent,
          changesApplied |-> changesApplied]
    ELSE LET block                == blocks[i]
             normalizedContent    == normalizeLineEndings(modifiedContent)
             normalizedSearchText == normalizeLineEndings(block.searchText)
             found    == Includes(normalizedContent, normalizedSearchText)
             foundEnd == Includes(normalizedContent, TrimEnd(normalizedSearchText))
             searchText  == IF found THEN block.searchText ELSE TrimEnd(block.searchText)
             replaceText == IF found THEN block.replaceText ELSE TrimEnd(block.replaceText)
             afterReplace == replaceWithLineEndingAwareness(modifiedContent, searchText,
                                                            replaceText)
         IN  IF ~found /\ ~foundEnd
             THEN [ok |-> FALSE, failedAt |-> i, searchText |-> block.searchText,
                   modifiedContent |-> modifiedContent,
                   changesApplied |-> changesApplied]
             ELSE ApplyFrom(blocks, i + 1, afterReplace,
                            IF afterReplace # modifiedContent
                            THEN changesApplied + 1 ELSE changesApplied)

\* Mutant of ApplyBlocks: the blocks are taken last to first.
ApplyBlocks_LastFirst(originalContent, blocks) ==
    ApplyFrom([i \in 1..Len(blocks) |-> blocks[Len(blocks) + 1 - i]], 1, originalContent, 0)

\* The loop from its start: modifiedContent = originalContent, changesApplied = 0.
ApplyBlocks(originalContent, blocks) == ApplyFrom(blocks, 1, originalContent, 0)

(***************************************************************************)
(* State.                                                                  *)
(***************************************************************************)

VARIABLES
    disk,             \* the files of the vault folder: path -> text, or Absent
    index,            \* the paths app.vault knows as files (getAbstractFileByPath)
    folders,          \* the folders of the vault
    isRepo,           \* whether the vault folder is a git work tree
    commits,          \* the git history, oldest first
    autoAcceptEdits,  \* getSettings().autoAcceptEdits
    op,               \* the handler in flight: its arguments, locals and position
    result,           \* what the last handler returned
    calls,            \* the collaborator calls of the handler in flight or last returned
    pre,              \* the store and history when that handler was called
    nops,             \* the number of handler calls so far
    arg,              \* the input of a function applied on its own
    out               \* its output

storeVars == <<disk, index, folders, isRepo, commits, autoAcceptEdits>>
opVars    == <<op, result, calls, pre, nops>>
pureVars  == <<arg, out>>
vars      == <<disk, index, folders, isRepo, commits, autoAcceptEdits,
               op, result, calls, pre, nops, arg, out>>

\* What disk holds for a path with no file: no text, as no character of a
\* text is "ABSENT".
Absent  == <<"ABSENT">>
Idle    == [name |-> "idle", pc |-> "idle"]
NoValue == [kind |-> "none"]

\* A vault with no file, no repository and no handler in flight.
EmptyStore ==
    /\ disk = <<>>
    /\ index = {}
    /\ folders = {}
    /\ isRepo = FALSE
    /\ commits = <<>>
    /\ autoAcceptEdits = FALSE

NoHandler ==
    /\ op = Idle
    /\ result = NoValue
    /\ calls = <<>>
    /\ pre = NoValue
    /\ nops = 0

\* All texts over the alphabet A of at most n characters.
TextsUpTo(A, n) == UNION {[1..k -> A] : k \in 0..n}

\* All sequences over S of at most n elements.
SeqsUpTo(S, n) == UNION {[1..k -> S] : k \in 0..n}

(***************************************************************************)
(* SpecLineEndings: detection, normalization and restoration applied to a  *)
(* text on their own, as replaceWithLineEndingAwareness chains them.       *)
(***************************************************************************)

LineEndingAlphabet == {"a", "\r", "\n"}
MaxTextLen == 4

InitLineEndings ==
    /\ EmptyStore
    /\ NoHandler
    /\ arg \in [text : TextsUpTo(LineEndingAlphabet, MaxTextLen)]
    /\ out = NoValue

\* The line ending steps of replaceWithLineEndingAwareness on arg.text, with
\* no replacement in between.
LineEndingRoundTrip ==
    /\ out = NoValue
    /\ LET crlf       == usesCrlf(arg.text)
           normalized == normalizeLineEndings(arg.text)
       IN  out' = [kind |-> "roundtrip", usesCrlf |-> crlf, normalized |-> normalized,
                   restored |-> restoreLineEndings(normalized, crlf)]
    /\ UNCHANGED <<storeVars, opVars, arg>>

NextLineEndings == LineEndingRoundTrip

SpecLineEndings == InitLineEndings /\ [][NextLineEndings]_vars

(***************************************************************************)
(* SpecApply: the block loop of replaceInFile applied to a document and a  *)
(* sequence of blocks on its own.                                          *)
(***************************************************************************)

Block(s, r) == [searchText |-> s, replaceText |-> r]

\* The documents the loop is run on.
ApplyDocs ==
    { <<"a", "\r", "\n", "b">>,                       \* CRLF
      <<"a", "\n", "b">>,                             \* LF
      <<"a", "\r", "b">>,                             \* lone CR
      <<"a", "\r", "\n", "b", "\r", "\n", "a">>,      \* CRLF, "a" twice
      <<"b", "\n", "a", "\n", "a">>,                  \* LF, "a" twice
      <<"a", "\r", "\n", "b", "\n", "c">>,            \* one CRLF, one LF
      <<"a", "b">>,
      <<"a", "a">> }

\* The blocks the loop is given, each trimmed as the parser leaves them.
EditBlocks ==
    { Block(<<"a">>, <<"c">>),
      Block(<<"b">>, <<"d">>),
      Block(<<"a">>, <<"a">>),
      Block(<<"a">>, <<"b">>),
      Block(<<"a">>, <<>>),
      Block(<<"c">>, <<"d">>),
      Block(<<"a">>, <<"$", "&">>),
      Block(<<"a", "\n", "b">>, <<"a">>),
      Block(<<"a">>, <<"a", "\n", "b">>) }

MaxBlocks == 2

InitApply ==
    /\ EmptyStore
    /\ NoHandler
    /\ arg \in [content : ApplyDocs, blocks : SeqsUpTo(EditBlocks, MaxBlocks)]
    /\ out = NoValue

RunApply ==
    /\ out = NoValue
    /\ out' = [kind |-> "apply", loop |-> ApplyBlocks(arg.content, arg.blocks)]
    /\ UNCHANGED <<storeVars, opVars, arg>>

NextApply == RunApply

SpecApply == InitApply /\ [][NextApply]_vars

(***************************************************************************)
(* The handlers: what they share.                                          *)
(***************************************************************************)

\* The most handler calls of one behaviour.
MaxOps == 3

\* Mutant of IsFile: whatever is looked up is taken for a file.
IsFile_Always(path) == TRUE

\* app.vault.getAbstractFileByPath(path) instanceof TFile
IsFile(path) == path \in index

\* app.vault.getAbstractFileByPath(path) is a folder
IsFolder(path) == path \in folders

\* The store and the history, as a handler finds them when it is called.
Snapshot == [disk |-> disk, index |-> index, folders |-> folders, commits |-> commits]

\* A handler is called: it is the (nops + 1)-th call, nothing is returned yet
\* and it has called no collaborator yet.
Enter ==
    /\ op.pc \in {"idle", "done"}
    /\ nops < MaxOps
    /\ nops' = nops + 1
    /\ pre' = Snapshot

\* The handler in flight returns r; its arguments and locals stay readable.
Return(r) ==
    /\ result' = r
    /\ op' = [op EXCEPT !.pc = "done"]

Pending == [kind |-> "pending"]

(***************************************************************************)
(* show_preview, and the preview surface deciding.                         *)
(***************************************************************************)

\* path.split("/").slice(0, -1): the folder of a path, <<>> for a
\* path in the root of the vault.
FolderOf(path) == SubSeq(path, 1, Len(path) - 1)

PreviewDecisions == {"accepted", "rejected", "failed"}

\* The most invocations of the resolution callback of one preview.
MaxDecisions == 2

\* What a handler leaves to its caller when an exception escapes it.
Raised == [kind |-> "raised"]

\* getFile(file_path): the ways it can end, each with the store it leaves.
\* A file is returned as it is; a folder throws; otherwise the folder of the
\* path is ensured (created if missing, or the store throws) and the file is
\* created empty (or the store throws).
getFile(file_path) ==
    LET same == [ok |-> FALSE, disk |-> disk, index |-> index, folders |-> folders]
        folder == FolderOf(file_path)
        ensured == IF folder # <<>> /\ ~IsFolder(folder)
                   THEN folders \cup {folder} ELSE folders
    IN  IF IsFile(file_path) THEN {[same EXCEPT !.ok = TRUE]}
        ELSE IF IsFolder(file_path) THEN {same}
        ELSE {same, [same EXCEPT !.folders = ensured]}
               \cup (IF disk[file_path] # Absent THEN {}
                     ELSE {[ok |-> TRUE, folders |-> ensured,
                            disk |-> [disk EXCEPT ![file_path] = <<>>],
                            index |-> index \cup {file_path}]})

\* new Promise((resolve) => ...): not settled yet.
PendingPromise == [state |-> "pending"]

\* Mutant of Resolve: every call of resolve sets the value of the promise.
Resolve_Latest(promise, value) == [state |-> "fulfilled", value |-> value]

\* resolve(result): settles the promise if it is pending, and does nothing
\* to a settled promise.
Resolve(promise, value) ==
    IF promise.state = "pending"
    THEN [state |-> "fulfilled", value |-> value]
    ELSE promise

\* show_preview up to the promise: the file is obtained and read, the diff
\* against its content is handed to the Apply View with the resolution
\* callback, and the handler waits. An exception of getFile or of the read
\* is caught by replaceInFile, whose call of show_preview is inside its try
\* block, and escapes writeToFile, whose call is not.
ShowPreview ==
    /\ op.pc = "preview"
    /\ calls' = calls \o <<"show_preview">>
    /\ \E got \in getFile(op.path), read \in BOOLEAN :
        /\ disk' = got.disk
        /\ index' = got.index
        /\ folders' = got.folders
        /\ IF got.ok /\ read
           THEN /\ op' = [op EXCEPT !.pc = "awaiting"]
                            @@ [promise |-> PendingPromise, decisions |-> <<>>]
                /\ result' = result
           ELSE IF op.name = "replaceInFile"
           THEN Return([kind |-> "Error", path |-> op.path])
           ELSE Return(Raised)
    /\ UNCHANGED <<isRepo, commits, autoAcceptEdits, pre, nops, pureVars>>

\* The Apply View invokes resultCallback(decision), for the first time or
\* again; accepting is the view writing the previewed content before it
\* invokes the callback for the first time.
PreviewDecide(decision) ==
    /\ op.pc \in {"awaiting", "done"}
    /\ "promise" \in DOMAIN op
    /\ Len(op.decisions) < MaxDecisions
    /\ op' = [op EXCEPT !.promise = Resolve(@, decision),
                        !.decisions = Append(@, decision)]
    /\ disk' = IF decision = "accepted" /\ op.decisions = <<>>
               THEN [disk EXCEPT ![op.path] = op.content] ELSE disk
    /\ UNCHANGED <<index, folders, isRepo, commits, autoAcceptEdits, result, calls, pre,
                   nops, pureVars>>

\* Mutant of PreviewResume: the wait times out, and the handler goes on with
\* "failed" though the promise is pending.
PreviewResume_TimesOut ==
    /\ op.pc = "awaiting"
    /\ IF op.name = "replaceInFile"
       THEN Return([kind |-> "json", result |-> "failed",
                    blocksApplied |-> op.changesApplied])
       ELSE Return([kind |-> "json", result |-> "failed"])
    /\ UNCHANGED <<storeVars, calls, pre, nops, pureVars>>

\* `await show_preview(...)` continues with the value of the promise, and
\* the handler returns it: replaceInFile with the number of blocks applied.
PreviewResume ==
    /\ op.pc = "awaiting"
    /\ op.promise.state = "fulfilled"
    /\ IF op.name = "replaceInFile"
       THEN Return([kind |-> "json", result |-> op.promise.value,
                    blocksApplied |-> op.changesApplied])
       ELSE Return([kind |-> "json", result |-> op.promise.value])
    /\ UNCHANGED <<storeVars, calls, pre, nops, pureVars>>

(***************************************************************************)
(* writeToFile                                                             *)
(***************************************************************************)

\* Mutant of shouldBypassConfirmation: the request of the caller is ignored.
shouldBypassConfirmation_SettingOnly(confirmation) == autoAcceptEdits

\* settings.autoAcceptEdits || confirmation === false
shouldBypassConfirmation(confirmation) == autoAcceptEdits \/ confirmation = FALSE

\* handler({path, content, confirmation}) up to the first await.
WriteToFileCall(path, content, confirmation) ==
    /\ Enter
    /\ calls' = <<>>
    /\ op' = [name |-> "writeToFile",
              pc |-> IF shouldBypassConfirmation(confirmation) THEN "write" ELSE "preview",
              path |-> path, content |-> content, confirmation |-> confirmation]
    /\ result' = Pending
    /\ UNCHANGED <<storeVars, pureVars>>

\* The try block of the bypass: getFile, app.vault.modify, and the return
\* of "accepted", or of "failed" from the catch block.
WriteToFileDirect ==
    /\ op.name = "writeToFile"
    /\ op.pc = "write"
    /\ \E got \in getFile(op.path), written \in BOOLEAN :
        /\ index' = got.index
        /\ folders' = got.folders
        /\ calls' = calls \o (IF got.ok THEN <<"getFile", "modify">> ELSE <<"getFile">>)
        /\ IF got.ok /\ written
           THEN /\ disk' = [got.disk EXCEPT ![op.path] = op.content]
                /\ Return([kind |-> "json", result |-> "accepted"])
           ELSE /\ disk' = got.disk
                /\ Return([kind |-> "json", result |-> "failed"])
    /\ UNCHANGED <<isRepo, commits, autoAcceptEdits, pre, nops, pureVars>>

(***************************************************************************)
(* replaceInFile                                                           *)
(***************************************************************************)

MIN_FILE_SIZE_FOR_REPLACE == 3000

\* Mutant of TooSmall: no size gate.
TooSmall_Never(originalContent) == FALSE

\* originalContent.length < MIN_FILE_SIZE_FOR_REPLACE
TooSmall(originalContent) == Len(originalContent) < MIN_FILE_SIZE_FOR_REPLACE

\* handler({path, diff}) up to `await app.vault.read(file)`.
ReplaceInFileCall(path, diff) ==
    /\ Enter
    /\ calls' = <<>>
    /\ IF ~IsFile(path)
       THEN /\ op' = [name |-> "replaceInFile", pc |-> "done", path |-> path,
                      diff |-> diff]
            /\ result' = [kind |-> "NotFound", path |-> path]
       ELSE /\ op' = [name |-> "replaceInFile", pc |-> "read", path |-> path,
                      diff |-> diff]
            /\ result' = Pending
    /\ UNCHANGED <<storeVars, pureVars>>

\* Mutant of Unchanged: the call counts as a no-op if no block was counted.
Unchanged_NoBlockCounted(originalContent, loop) == loop.changesApplied = 0

\* originalContent === modifiedContent, after the loop.
Unchanged(originalContent, loop) == originalContent = loop.modifiedContent

\* Mutant of ReplaceOutcome: the instruction is parsed, and an empty parse
\* reported, before the size of the document is looked at.
ReplaceOutcome_ParseFirst(path, originalContent, diff) ==
    LET searchReplaceBlocks == parseSearchReplaceBlocks(diff)
        loop                == ApplyBlocks(originalContent, searchReplaceBlocks)
    IN  IF Len(searchReplaceBlocks) = 0 THEN [kind |-> "NoBlocks", diff |-> diff]
        ELSE IF TooSmall(originalContent) THEN [kind |-> "SizeGate"]
        ELSE IF ~loop.ok
        THEN [kind |-> "NoMatch", path |-> path, searchText |-> loop.searchText]
        ELSE IF Unchanged(originalContent, loop)
        THEN [kind |-> "NoChanges", path |-> path]
        ELSE [kind |-> "candidate", content |-> loop.modifiedContent,
              changesApplied |-> loop.changesApplied]

\* Mutant of ReplaceOutcome: an empty list of blocks is not told apart.
ReplaceOutcome_NoEmptyCheck(path, originalContent, diff) ==
    LET searchReplaceBlocks == parseSearchReplaceBlocks(diff)
        loop                == ApplyBlocks(originalContent, searchReplaceBlocks)
    IN  IF TooSmall(originalContent) THEN [kind |-> "SizeGate"]
        ELSE IF ~loop.ok
        THEN [kind |-> "NoMatch", path |-> path, searchText |-> loop.searchText]
        ELSE IF Unchanged(originalContent, loop)
        THEN [kind |-> "NoChanges", path |-> path]
        ELSE [kind |-> "candidate", content |-> loop.modifiedContent,
              changesApplied |-> loop.changesApplied]

\* What the handler makes of the content it read, in the order of its
\* returns: the size gate, the parse and the empty list, the loop over the
\* blocks and its not-found return, the no-change return; or the candidate
\* content with the number of blocks counted.
ReplaceOutcome(path, originalContent, diff) ==
    LET searchReplaceBlocks == parseSearchReplaceBlocks(diff)
        loop                == ApplyBlocks(originalContent, searchReplaceBlocks)
    IN  IF TooSmall(originalContent) THEN [kind |-> "SizeGate"]
        ELSE IF Len(searchReplaceBlocks) = 0 THEN [kind |-> "NoBlocks", diff |-> diff]
        ELSE IF ~loop.ok
        THEN [kind |-> "NoMatch", path |-> path, searchText |-> loop.searchText]
        ELSE IF Unchanged(originalContent, loop)
        THEN [kind |-> "NoChanges", path |-> path]
        ELSE [kind |-> "candidate", content |-> loop.modifiedContent,
              changesApplied |-> loop.changesApplied]

\* From the read of the file to the first await after the loop: a failed
\* read or one of the returns, or else the choice between the direct write
\* and the preview.
ReplaceInFileRead ==
    /\ op.name = "replaceInFile"
    /\ op.pc = "read"
    /\ calls' = calls \o <<"read">>
    /\ IF disk[op.path] = Absent
       THEN Return([kind |-> "Error", path |-> op.path])
       ELSE LET outcome == ReplaceOutcome(op.path, disk[op.path], op.diff)
            IN  IF outcome.kind # "candidate"
                THEN Return(outcome)
                ELSE /\ op' = [op EXCEPT
                                  !.pc = IF autoAcceptEdits THEN "modify" ELSE "preview"]
                                 @@ [content |-> outcome.content,
                                     changesApplied |-> outcome.changesApplied]
                     /\ UNCHANGED result
    /\ UNCHANGED <<storeVars, pre, nops, pureVars>>

\* `await app.vault.modify(file, modifiedContent)` and the return after it;
\* the write either succeeds or throws.
ReplaceInFileModify ==
    /\ op.name = "replaceInFile"
    /\ op.pc = "modify"
    /\ calls' = calls \o <<"modify">>
    /\ \E written \in BOOLEAN :
        IF written
        THEN /\ disk' = [disk EXCEPT ![op.path] = op.content]
             /\ Return([kind |-> "json", result |-> "accepted",
                        blocksApplied |-> op.changesApplied])
        ELSE /\ disk' = disk
             /\ Return([kind |-> "json", result |-> "failed",
                        blocksApplied |-> op.changesApplied])
    /\ UNCHANGED <<index, folders, isRepo, commits, autoAcceptEdits, pre, nops, pureVars>>

(***************************************************************************)
(* SpecReplace: replaceInFile called on a vault of one note.               *)
(***************************************************************************)

NotePath    == <<"note.md">>
MissingPath == <<"missing.md">>

NL == <<"\n">>
Foo == <<"f", "o", "o">>
Bar == <<"b", "a", "r">>
Baz == <<"b", "a", "z">>
Qux == <<"q", "u", "x">>

\* "foo\nfoo\nbaz"
FooFooBaz == Foo \o NL \o Foo \o NL \o Baz

\* The documents of the note: the small one, and the same followed by a line
\* of filler that brings it to one character under the size threshold, to
\* the threshold, and over it with CRLF line endings.
ReplaceDocs ==
    { FooFooBaz,
      FooFooBaz \o NL \o Rep("x", MIN_FILE_SIZE_FOR_REPLACE - Len(FooFooBaz) - 2),
      FooFooBaz \o NL \o Rep("x", MIN_FILE_SIZE_FOR_REPLACE - Len(FooFooBaz) - 1),
      Foo \o <<"\r", "\n">> \o Foo \o <<"\r", "\n">> \o Baz \o <<"\r", "\n">>
          \o Rep("x", MIN_FILE_SIZE_FOR_REPLACE) }

\* A block written the way the tool's description asks for it:
\* "------- SEARCH\n" search "\n=======\n" replace "\n+++++++ REPLACE"
FormatBlock(s, r) ==
    Rep("-", 7) \o <<" ">> \o SEARCH_WORD \o NL \o s \o NL \o Rep("=", 7) \o NL
        \o r \o NL \o Rep("+", 7) \o <<" ">> \o REPLACE_WORD

\* The instruction texts replaceInFile is called with.
Diffs ==
    { FormatBlock(Foo, Bar),                                     \* every foo to bar
      FormatBlock(Foo, Bar) \o NL \o NL \o FormatBlock(Baz, Qux),   \* two blocks that match
      FormatBlock(Foo, Bar) \o NL \o NL \o FormatBlock(Bar, Qux),   \* the 2nd finds what the 1st wrote
      FormatBlock(Foo, Bar) \o NL \o NL \o FormatBlock(Qux, Foo),   \* the 2nd is not found
      FormatBlock(Foo, Qux) \o NL \o NL \o FormatBlock(Foo, Bar),   \* the 1st removes what the 2nd seeks
      FormatBlock(Foo, Foo),                                     \* changes nothing
      FormatBlock(Foo, Qux) \o NL \o NL \o FormatBlock(Qux, Foo),   \* the 2nd undoes the 1st
      Foo \o NL \o Bar,                                          \* no marker
      Rep("-", 7) \o <<" ">> \o SEARCH_WORD \o NL \o Foo \o NL \o Rep("=", 7)
          \o NL \o Bar }                                        \* no REPLACE marker

InitReplace ==
    /\ disk \in [{NotePath, MissingPath} -> ReplaceDocs \cup {Absent}]
    /\ disk[NotePath] # Absent
    /\ disk[MissingPath] = Absent
    /\ index = {NotePath}
    /\ folders = {}
    /\ isRepo = FALSE
    /\ commits = <<>>
    /\ autoAcceptEdits \in BOOLEAN
    /\ NoHandler
    /\ arg = NoValue
    /\ out = NoValue

NextReplace ==
    \/ \E path \in {NotePath, MissingPath}, diff \in Diffs : ReplaceInFileCall(path, diff)
    \/ ReplaceInFileRead
    \/ ReplaceInFileModify
    \/ ShowPreview
    \/ \E decision \in PreviewDecisions : PreviewDecide(decision)
    \/ PreviewResume

SpecReplace == InitReplace /\ [][NextReplace]_vars

(***************************************************************************)
(* Version control: the vault folder as a git work tree.                   *)
(***************************************************************************)

\* The tag of the commits gitCommitBeforeRiskyAction creates.
BackupTag == "[Auto-backup]"

\* A vault path, a sequence of segments, as the text "seg/seg/file".
RECURSIVE PathText(_)
PathText(path) ==
    IF Len(path) <= 1 THEN path
    ELSE <<path[1], "/">> \o PathText(Tail(path))

\* `[Auto-backup] ${action}`, a text of words.
CommitMessage(action) == <<BackupTag, " ">> \o action

\* `Before deleting: ${path}`
DeleteAction(path) == <<"Before deleting:", " ">> \o PathText(path)

\* `Before moving: ${sourcePath} -> ${destinationPath}`
MoveAction(sourcePath, destinationPath) ==
    <<"Before moving:", " ">> \o PathText(sourcePath) \o <<" -> ">>
        \o PathText(destinationPath)

\* The message of a commit the user makes.
UserMessage == <<"Update notes">>

\* Mutant of GitCommitAll: the commit takes the place of the last one
\* (git commit --amend).
GitCommitAll_Amend(message) ==
    IF commits = <<>> THEN <<[message |-> message, tree |-> disk]>>
    ELSE [commits EXCEPT ![Len(commits)] = [message |-> message, tree |-> disk]]

\* `git add -A && git commit -m message --allow-empty`: the commit records
\* every file of the work tree; its parent is the commit before it.
GitCommitAll(message) == Append(commits, [message |-> message, tree |-> disk])

\* commitInfo.includes("[Auto-backup]")
IsBackupCommit(commitInfo) == Includes(commitInfo, <<BackupTag>>)

\* Mutant of StepAfter: deleteNote trashes the file, then takes the backup.
StepAfter_TrashFirst(name, pc) ==
    CASE name = "deleteNote" ->
            (CASE pc = "call" -> "trash" [] pc = "trash" -> "backup" [] OTHER -> "done")
      [] name = "moveNote" ->
            (CASE pc = "call" -> "ensureFolder" [] pc = "ensureFolder" -> "backup"
               [] pc = "backup" -> "rename" [] OTHER -> "done")
      [] OTHER ->
            (CASE pc = "call" -> "log" [] pc = "log" -> "checkout" [] OTHER -> "done")

\* The order of the awaited calls of a handler: the position that follows pc.
StepAfter(name, pc) ==
    CASE name = "deleteNote" ->
            (CASE pc = "call" -> "backup" [] pc = "backup" -> "trash" [] OTHER -> "done")
      [] name = "moveNote" ->
            (CASE pc = "call" -> "ensureFolder" [] pc = "ensureFolder" -> "backup"
               [] pc = "backup" -> "rename" [] OTHER -> "done")
      [] OTHER ->
            (CASE pc = "call" -> "log" [] pc = "log" -> "checkout" [] OTHER -> "done")

\* What deleteNote and moveNote return after their last call.
Succeeded(o) ==
    IF o.name = "deleteNote"
    THEN [kind |-> "Deleted", success |-> TRUE, gitBackup |-> o.gitBackup]
    ELSE [kind |-> "Moved", success |-> TRUE, gitBackup |-> o.gitBackup,
          oldPath |-> o.sourcePath, newPath |-> o.destinationPath]

\* The handler goes on to its next call with its locals as in o, or returns
\* if there is none.
Proceed(o) ==
    LET next == StepAfter(o.name, o.pc)
    IN  /\ op' = [o EXCEPT !.pc = next]
        /\ result' = IF next = "done" THEN Succeeded(o) ELSE result

\* Mutant of GitCommitBeforeRiskyAction: a failed backup is thrown on to the
\* handler, which returns the failure.
GitCommitBeforeRiskyAction_Rethrows(action) ==
    /\ calls' = calls \o <<"gitCommitBeforeRiskyAction">>
    /\ \E committed \in BOOLEAN :
        IF isRepo /\ committed
        THEN /\ commits' = GitCommitAll(CommitMessage(action))
             /\ Proceed([op EXCEPT !.gitBackup = TRUE])
        ELSE /\ commits' = commits
             /\ Return([kind |-> "Error", success |-> FALSE])

\* gitCommitBeforeRiskyAction(vaultPath, action) and the assignment of what
\* it returns to gitBackup: true if the vault is a work tree and the commit
\* was created, false (the error swallowed) otherwise.
GitCommitBeforeRiskyAction(action) ==
    /\ calls' = calls \o <<"gitCommitBeforeRiskyAction">>
    /\ \E committed \in BOOLEAN :
        IF isRepo /\ committed
        THEN /\ commits' = GitCommitAll(CommitMessage(action))
             /\ Proceed([op EXCEPT !.gitBackup = TRUE])
        ELSE /\ commits' = commits
             /\ Proceed([op EXCEPT !.gitBackup = FALSE])

(***************************************************************************)
(* deleteNote                                                              *)
(***************************************************************************)

\* handler({path}) up to the first await.
DeleteNoteCall(path) ==
    /\ Enter
    /\ calls' = <<>>
    /\ LET o == [name |-> "deleteNote", pc |-> "call", path |-> path,
                 gitBackup |-> FALSE]
       IN  IF ~IsFile(path)
           THEN /\ op' = [o EXCEPT !.pc = "done"]
                /\ result' = [kind |-> "NotFound", success |-> FALSE]
           ELSE /\ op' = [o EXCEPT !.pc = StepAfter("deleteNote", "call")]
                /\ result' = Pending
    /\ UNCHANGED <<storeVars, pureVars>>

\* `await gitCommitBeforeRiskyAction(vaultPath, "Before deleting: " + path)`
DeleteNoteBackup ==
    /\ op.name = "deleteNote"
    /\ op.pc = "backup"
    /\ GitCommitBeforeRiskyAction(DeleteAction(op.path))
    /\ UNCHANGED <<disk, index, folders, isRepo, autoAcceptEdits, pre, nops, pureVars>>

\* `await app.vault.trash(file, true)`: the file leaves the vault, or the
\* store throws.
DeleteNoteTrash ==
    /\ op.name = "deleteNote"
    /\ op.pc = "trash"
    /\ calls' = calls \o <<"trash">>
    /\ \E trashed \in BOOLEAN :
        IF trashed
        THEN /\ disk' = [disk EXCEPT ![op.path] = Absent]
             /\ index' = index \ {op.path}
             /\ Proceed(op)
        ELSE /\ UNCHANGED <<disk, index>>
             /\ Return([kind |-> "Error", success |-> FALSE])
    /\ UNCHANGED <<folders, isRepo, commits, autoAcceptEdits, pre, nops, pureVars>>

(***************************************************************************)
(* moveNote                                                                *)
(***************************************************************************)

\* handler({sourcePath, destinationPath}) up to the first await.
MoveNoteCall(sourcePath, destinationPath) ==
    /\ Enter
    /\ calls' = <<>>
    /\ LET o == [name |-> "moveNote", pc |-> "call", sourcePath |-> sourcePath,
                 destinationPath |-> destinationPath, gitBackup |-> FALSE]
       IN  IF ~IsFile(sourcePath)
           THEN /\ op' = [o EXCEPT !.pc = "done"]
                /\ result' = [kind |-> "NotFound", success |-> FALSE]
           ELSE IF IsFile(destinationPath) \/ IsFolder(destinationPath)
           THEN /\ op' = [o EXCEPT !.pc = "done"]
                /\ result' = [kind |-> "DestinationExists", success |-> FALSE]
           ELSE /\ op' = [o EXCEPT !.pc = StepAfter("moveNote", "call")]
                /\ result' = Pending
    /\ UNCHANGED <<storeVars, pureVars>>

\* `if (destFolder) await ensureFolderExists(destFolder)`: a folder that is
\* missing is created, or the store throws.
MoveNoteEnsureFolder ==
    /\ op.name = "moveNote"
    /\ op.pc = "ensureFolder"
    /\ LET destFolder == FolderOf(op.destinationPath)
       IN  IF destFolder = <<>> \/ IsFolder(destFolder)
           THEN /\ UNCHANGED <<folders, calls>>
                /\ Proceed(op)
           ELSE /\ calls' = calls \o <<"createFolder">>
                /\ \E created \in BOOLEAN :
                    IF created
                    THEN /\ folders' = folders \cup {destFolder}
                         /\ Proceed(op)
                    ELSE /\ folders' = folders
                         /\ Return([kind |-> "Error", success |-> FALSE])
    /\ UNCHANGED <<disk, index, isRepo, commits, autoAcceptEdits, pre, nops, pureVars>>

\* `await gitCommitBeforeRiskyAction(vaultPath, "Before moving: ...")`
MoveNoteBackup ==
    /\ op.name = "moveNote"
    /\ op.pc = "backup"
    /\ GitCommitBeforeRiskyAction(MoveAction(op.sourcePath, op.destinationPath))
    /\ UNCHANGED <<disk, index, folders, isRepo, autoAcceptEdits, pre, nops, pureVars>>

\* `await app.fileManager.renameFile(file, destinationPath)`: the file moves,
\* or the store throws (as it does when a file is in the way on disk).
MoveNoteRename ==
    /\ op.name = "moveNote"
    /\ op.pc = "rename"
    /\ calls' = calls \o <<"rename">>
    /\ \E renamed \in BOOLEAN :
        IF renamed /\ disk[op.destinationPath] = Absent
        THEN /\ disk' = [disk EXCEPT ![op.destinationPath] = disk[op.sourcePath],
                                     ![op.sourcePath] = Absent]
             /\ index' = (index \ {op.sourcePath}) \cup {op.destinationPath}
             /\ Proceed(op)
        ELSE /\ UNCHANGED <<disk, index>>
             /\ Return([kind |-> "Error", success |-> FALSE])
    /\ UNCHANGED <<folders, isRepo, commits, autoAcceptEdits, pre, nops, pureVars>>

(***************************************************************************)
(* undoFileOperation                                                       *)
(***************************************************************************)

\* handler({commitHash, filePath}) up to the first await. A commit hash is
\* the position of the commit in the history; 0 names no commit.
UndoCall(commitHash, filePath) ==
    /\ Enter
    /\ calls' = <<>>
    /\ op' = [name |-> "undoFileOperation", pc |-> StepAfter("undoFileOperation", "call"),
              commitHash |-> commitHash, filePath |-> filePath]
    /\ result' = Pending
    /\ UNCHANGED <<storeVars, pureVars>>

\* Mutant of UndoChecks: no check of the backup tag.
UndoChecks_NoTagCheck(commitInfo, filePath) ==
    IF IsFile(filePath) \/ IsFolder(filePath) THEN "AlreadyExists"
    ELSE "ok"

\* The two checks between `git log` and `git checkout`: the subject of the
\* commit carries the backup tag, and the vault has nothing at filePath.
UndoChecks(commitInfo, filePath) ==
    IF ~IsBackupCommit(commitInfo) THEN "InvalidSnapshot"
    ELSE IF IsFile(filePath) \/ IsFolder(filePath) THEN "AlreadyExists"
    ELSE "ok"

\* `git log -1 --format="%s" commitHash`, which throws outside a work tree
\* and for an unknown commit, then the two checks.
UndoLog ==
    /\ op.name = "undoFileOperation"
    /\ op.pc = "log"
    /\ calls' = calls \o <<"git log">>
    /\ IF ~isRepo \/ op.commitHash \notin 1..Len(commits)
       THEN Return([kind |-> "Error", success |-> FALSE])
       ELSE LET check == UndoChecks(commits[op.commitHash].message, op.filePath)
            IN  IF check = "ok" THEN Proceed(op)
                ELSE Return([kind |-> check, success |-> FALSE])
    /\ UNCHANGED <<storeVars, pre, nops, pureVars>>

\* Mutant of CheckoutSource: the file is checked out from the backup commit.
CheckoutSource_Snapshot(commitHash) == commitHash

\* `${commitHash}^`: the commit the file is checked out from, the parent of
\* the backup commit; 0 if it has none.
CheckoutSource(commitHash) == commitHash - 1

\* `git checkout commitHash^ -- filePath` and the return after it: the file
\* is written into the work tree as the parent commit has it; git fails if
\* there is no parent commit or the parent has no such file.
UndoCheckout ==
    /\ op.name = "undoFileOperation"
    /\ op.pc = "checkout"
    /\ calls' = calls \o <<"git checkout">>
    /\ LET source == CheckoutSource(op.commitHash)
       IN  IF source \notin 1..Len(commits)
           THEN /\ disk' = disk
                /\ Return([kind |-> "Error", success |-> FALSE])
           ELSE IF commits[source].tree[op.filePath] = Absent
           THEN /\ disk' = disk
                /\ Return([kind |-> "NotInHistory", success |-> FALSE])
           ELSE /\ disk' = [disk EXCEPT ![op.filePath] = commits[source].tree[op.filePath]]
                /\ Return([kind |-> "Recovered", success |-> TRUE,
                           recoveredPath |-> op.filePath, fromCommit |-> op.commitHash])
    /\ UNCHANGED <<index, folders, isRepo, commits, autoAcceptEdits, pre, nops, pureVars>>

(***************************************************************************)
(* listRecentFileOperations                                                *)
(***************************************************************************)

\* %ar, the age of a commit; the model has one.
TimeAgo == "2 hours ago"

\* %H, the hash of the commit at position i of the history, as a text.
HashText(i) == Rep("h", i)

\* The positions of the history from position i down to 1.
RECURSIVE NewestFirst(_)
NewestFirst(i) == IF i = 0 THEN <<>> ELSE <<i>> \o NewestFirst(i - 1)

\* The output of `git log --grep="\[Auto-backup\]" -limit --format="%H|%ar|%s"`
\* in a work tree with commits: a line for each of the first `limit` commits,
\* newest first, whose message holds the tag.
gitLog(limit) ==
    LET HasTag(i) == IsBackupCommit(commits[i].message)
        tagged == SelectSeq(NewestFirst(Len(commits)), HasTag)
        shown  == SubSeq(tagged, 1, IF limit < Len(tagged) THEN limit ELSE Len(tagged))
        lines  == [k \in 1..Len(shown) |->
                      HashText(shown[k]) \o <<"|", TimeAgo, "|">> \o commits[shown[k]].message]
    IN  join([k \in 1..Len(lines) |-> lines[k] \o <<"\n">>], <<>>)

\* The callback of .map((line, index) => ...): the record made of one line.
ParseLine(line, lineIndex) ==
    LET parts   == split(line, <<"|">>)
        hash    == parts[1]
        timeAgo == parts[2]
        message == join(SubSeq(parts, 3, Len(parts)), <<"|">>)
        paths   == split(Trim(replace(message, <<BackupTag, " ", "Before moving:", " ">>, <<>>)),
                         <<" -> ">>)
        parsed  ==
            IF Includes(message, <<"Before deleting:">>)
            THEN [actionType |-> "delete",
                  filePath |-> Trim(replace(message,
                                            <<BackupTag, " ", "Before deleting:", " ">>, <<>>)),
                  destPath |-> <<>>]
            ELSE IF Includes(message, <<"Before moving:">>)
            THEN [actionType |-> "move",
                  filePath |-> Trim(paths[1]),
                  destPath |-> IF Len(paths) >= 2 THEN Trim(paths[2]) ELSE <<>>]
            ELSE [actionType |-> "unknown", filePath |-> <<>>, destPath |-> <<>>]
    IN  [index |-> lineIndex + 1, hash |-> Trim(hash), timeAgo |-> Trim(timeAgo),
         actionType |-> parsed.actionType, filePath |-> parsed.filePath,
         destPath |-> parsed.destPath, fullMessage |-> message]

\* handler({limit}) up to its await.
ListRecentFileOperationsCall(limit) ==
    /\ Enter
    /\ calls' = <<>>
    /\ op' = [name |-> "listRecentFileOperations", pc |-> "log", limit |-> limit]
    /\ result' = Pending
    /\ UNCHANGED <<storeVars, pureVars>>

\* `git log`, which fails outside a work tree, in a work tree that has no
\* commit yet and for a limit that makes no option, and what the handler
\* returns.
ListRecentFileOperationsLog ==
    /\ op.name = "listRecentFileOperations"
    /\ op.pc = "log"
    /\ calls' = calls \o <<"git log">>
    /\ IF ~isRepo \/ commits = <<>> \/ op.limit < 0
       THEN Return([kind |-> "Error", success |-> FALSE])
       ELSE LET stdout == gitLog(op.limit)
                lines  == split(Trim(stdout), <<"\n">>)
            IN  IF Trim(stdout) = <<>>
                THEN Return([kind |-> "List", success |-> TRUE, operations |-> <<>>])
                ELSE Return([kind |-> "List", success |-> TRUE,
                             operations |->
                                 [k \in 1..Len(lines) |-> ParseLine(lines[k], k - 1)]])
    /\ UNCHANGED <<storeVars, pre, nops, pureVars>>

(***************************************************************************)
(* The environment of the vault.                                           *)
(***************************************************************************)

\* Obsidian notices what changed in the vault folder behind its back.
VaultRefresh ==
    /\ index # {p \in DOMAIN disk : disk[p] # Absent}
    /\ index' = {p \in DOMAIN disk : disk[p] # Absent}
    /\ UNCHANGED <<disk, folders, isRepo, commits, autoAcceptEdits, opVars, pureVars>>

\* The user commits the work tree, between two handler calls.
UserCommit ==
    /\ isRepo
    /\ op.pc \in {"idle", "done"}
    /\ nops < MaxOps
    /\ nops' = nops + 1
    /\ commits' = GitCommitAll(UserMessage)
    /\ op' = Idle
    /\ result' = NoValue
    /\ calls' = <<>>
    /\ pre' = NoValue
    /\ UNCHANGED <<disk, index, folders, isRepo, autoAcceptEdits, pureVars>>

(***************************************************************************)
(* Spec: deleteNote, moveNote and undoFileOperation on a vault of one note *)
(* that may be under version control.                                      *)
(***************************************************************************)

RootNote     == <<"a.md">>
ArchivedNote == <<"archive", "a.md">>
VaultPaths   == {RootNote, ArchivedNote}

\* The folder of the archived note, a path that is no file.
ArchiveFolder == FolderOf(ArchivedNote)

\* The contents a note has.
VaultTexts == {<<"1">>, <<"2">>}

\* The files of a vault whose archive is empty.
VaultTrees == {t \in [VaultPaths -> VaultTexts \cup {Absent}] : t[ArchivedNote] = Absent}

Init ==
    /\ disk \in VaultTrees
    /\ index = {p \in VaultPaths : disk[p] # Absent}
    /\ folders = {}
    /\ isRepo \in BOOLEAN
    /\ commits \in {<<>>} \cup {<<[message |-> UserMessage, tree |-> t]>> : t \in VaultTrees}
    /\ ~isRepo => commits = <<>>
    /\ autoAcceptEdits = FALSE
    /\ NoHandler
    /\ arg = NoValue
    /\ out = NoValue

Next ==
    \/ \E path \in VaultPaths \cup {ArchiveFolder} : DeleteNoteCall(path)
    \/ DeleteNoteBackup
    \/ DeleteNoteTrash
    \/ \E sourcePath \in VaultPaths \cup {ArchiveFolder}, destinationPath \in VaultPaths :
           sourcePath # destinationPath /\ MoveNoteCall(sourcePath, destinationPath)
    \/ MoveNoteEnsureFolder
    \/ MoveNoteBackup
    \/ MoveNoteRename
    \/ \E commitHash \in 0..Len(commits), filePath \in VaultPaths :
           UndoCall(commitHash, filePath)
    \/ UndoLog
    \/ UndoCheckout
    \/ \E path \in VaultPaths \cup {ArchiveFolder} :
           ReplaceInFileCall(path, FormatBlock(<<"1">>, <<"2">>))
    \/ ReplaceInFileRead
    \/ VaultRefresh
    \/ UserCommit

Spec == Init /\ [][Next]_vars

(***************************************************************************)
(* SpecList: listRecentFileOperations on histories of backup commits and   *)
(* other commits.                                                          *)
(***************************************************************************)

\* The most commits of a history, and the greatest limit asked for.
MaxCommits == 2
MaxLimit == 2

\* Paths whose text holds the words of a template, " -> " or "|".
DeletingFolderNote == <<"Before deleting:", "a.md">>
MovingFolderNote   == <<"Before moving:", "a.md">>
ArrowNote          == <<"a", " -> ", "b.md">>
BarNote            == <<"a", "|", "b.md">>

\* The subjects of the commits: the backups deleteNote and moveNote make, a
\* tagged commit of neither template, and a commit of the user.
ListMessages ==
    {CommitMessage(DeleteAction(p)) : p \in {RootNote, ArchivedNote, MovingFolderNote, BarNote}}
        \cup {CommitMessage(MoveAction(p, RootNote)) :
                  p \in {ArchivedNote, DeletingFolderNote, ArrowNote}}
        \cup {CommitMessage(<<"Manual snapshot">>), UserMessage}

InitList ==
    /\ disk = <<>>
    /\ index = {}
    /\ folders = {}
    /\ isRepo \in BOOLEAN
    /\ commits \in {[i \in DOMAIN m |-> [message |-> m[i], tree |-> <<>>]] :
                       m \in SeqsUpTo(ListMessages, MaxCommits)}
    /\ ~isRepo => commits = <<>>
    /\ autoAcceptEdits = FALSE
    /\ NoHandler
    /\ arg = NoValue
    /\ out = NoValue

NextList ==
    \/ \E limit \in (-1)..MaxLimit : ListRecentFileOperationsCall(limit)
    \/ ListRecentFileOperationsLog

SpecList == InitList /\ [][NextList]_vars

(***************************************************************************)
(* SpecWrite: writeToFile, and replaceInFile with one instruction, on a    *)
(* vault with a note, a folder and a path in a folder that does not exist. *)
(***************************************************************************)

FolderPath == <<"dir">>

\* The note is short, or long enough for replaceInFile.
LongNote == FooFooBaz \o NL \o Rep("x", MIN_FILE_SIZE_FOR_REPLACE - Len(FooFooBaz) - 1)

\* The contents writeToFile is called with.
WriteTexts == {<<"2">>}

InitWrite ==
    /\ disk \in [VaultPaths -> {<<"1">>, LongNote, Absent}]
    /\ disk[RootNote] # Absent
    /\ disk[ArchivedNote] = Absent
    /\ index = {RootNote}
    /\ folders = {FolderPath}
    /\ isRepo = FALSE
    /\ commits = <<>>
    /\ autoAcceptEdits \in BOOLEAN
    /\ NoHandler
    /\ arg = NoValue
    /\ out = NoValue

NextWrite ==
    \/ \E path \in VaultPaths \cup {FolderPath}, content \in WriteTexts,
          confirmation \in BOOLEAN : WriteToFileCall(path, content, confirmation)
    \/ WriteToFileDirect
    \/ ReplaceInFileCall(RootNote, FormatBlock(Foo, Bar))
    \/ ReplaceInFileRead
    \/ ReplaceInFileModify
    \/ ShowPreview
    \/ \E decision \in PreviewDecisions : PreviewDecide(decision)
    \/ PreviewResume

SpecWrite == InitWrite /\ [][NextWrite]_vars

\* The same with the continuation of a settled promise run in the end, as
\* the job queue of the JavaScript engine runs it.
SpecWriteLive == InitWrite /\ [][NextWrite]_vars /\ WF_vars(PreviewResume)

(***************************************************************************)
(* SpecHistory: the six tools called one after the other on a vault of one *)
(* note that may be under version control.                                 *)
(***************************************************************************)

InitHistory ==
    /\ disk = [p \in VaultPaths |-> IF p = RootNote THEN LongNote ELSE Absent]
    /\ index = {RootNote}
    /\ folders = {}
    /\ isRepo \in BOOLEAN
    /\ commits \in {<<>>, <<[message |-> UserMessage, tree |-> disk]>>}
    /\ ~isRepo => commits = <<>>
    /\ autoAcceptEdits \in BOOLEAN
    /\ NoHandler
    /\ arg = NoValue
    /\ out = NoValue

NextHistory ==
    \/ WriteToFileCall(RootNote, <<"2">>, TRUE)
    \/ WriteToFileDirect
    \/ ReplaceInFileCall(RootNote, FormatBlock(Foo, Bar))
    \/ ReplaceInFileRead
    \/ ReplaceInFileModify
    \/ ShowPreview
    \/ \E decision \in PreviewDecisions : PreviewDecide(decision)
    \/ PreviewResume
    \/ DeleteNoteCall(RootNote)
    \/ DeleteNoteBackup
    \/ DeleteNoteTrash
    \/ MoveNoteCall(RootNote, ArchivedNote)
    \/ MoveNoteEnsureFolder
    \/ MoveNoteBackup
    \/ MoveNoteRename
    \/ \E commitHash \in 0..Len(commits) : UndoCall(commitHash, RootNote)
    \/ UndoLog
    \/ UndoCheckout
    \/ ListRecentFileOperationsCall(1)
    \/ ListRecentFileOperationsLog
    \/ VaultRefresh

SpecHistory == InitHistory /\ [][NextHistory]_vars

(***************************************************************************)
(* SpecParse: parseSearchReplaceBlocks applied on its own to instruction   *)
(* texts written from blocks in three forms.                               *)
(***************************************************************************)

\* The characters of the two sides of a block: a letter and white space.
ParseAlphabet == {"a", " ", "\n"}

\* The most characters of one side of a block.
MaxSideLen == 2

\* The non-empty sides.
Sides == TextsUpTo(ParseAlphabet, MaxSideLen) \ {<<>>}

\* The blocks that instructions of several blocks are written from.
PlainBlocks == {Block(<<"a">>, <<"b">>), Block(<<"b">>, <<"a", "a">>), Block(<<"a", "\n", "b">>, <<"b">>)}

\* glued: the markers touch the sides; lf, crlf: every marker on a line of
\* its own, the lines ended by LF or by CR LF.
Forms == {"glued", "lf", "crlf"}

CRLF == <<"\r", "\n">>

\* One block in a form.
WriteBlock(form, block) ==
    CASE form = "glued" ->
            Rep("-", 7) \o SEARCH_WORD \o block.searchText \o Rep("=", 7)
                \o block.replaceText \o Rep("+", 7) \o REPLACE_WORD
      [] form = "lf" -> FormatBlock(block.searchText, block.replaceText)
      [] OTHER ->
            Rep("-", 7) \o <<" ">> \o SEARCH_WORD \o CRLF \o block.searchText \o CRLF
                \o Rep("=", 7) \o CRLF \o block.replaceText \o CRLF
                \o Rep("+", 7) \o <<" ">> \o REPLACE_WORD

\* The blocks one after the other: glued to each other, or a blank line apart.
RECURSIVE WriteBlocks(_, _)
WriteBlocks(form, blocks) ==
    IF blocks = <<>> THEN <<>>
    ELSE WriteBlock(form, Head(blocks))
           \o (IF Len(blocks) = 1 THEN <<>>
               ELSE (CASE form = "glued" -> <<>>
                       [] form = "lf" -> NL \o NL
                       [] OTHER -> CRLF \o CRLF)
                    \o WriteBlocks(form, Tail(blocks)))

InitParse ==
    /\ EmptyStore
    /\ NoHandler
    /\ arg \in [kind : {"parse"}, form : Forms,
                blocks : {<<Block(s, r)>> : s, r \in Sides}
                           \cup SeqsUpTo(PlainBlocks, MaxBlocks)]
    /\ out = NoValue

\* parseSearchReplaceBlocks(diff)
RunParse ==
    /\ arg.kind = "parse"
    /\ out = NoValue
    /\ out' = [kind |-> "parse",
               blocks |-> parseSearchReplaceBlocks(WriteBlocks(arg.form, arg.blocks))]
    /\ UNCHANGED <<storeVars, opVars, arg>>

NextParse == RunParse

SpecParse == InitParse /\ [][NextParse]_vars

(***************************************************************************)
(* SpecRace: two invocations of replaceInFile in flight at once on one     *)
(* note, edits accepted automatically. Here op, result are pairs, one      *)
(* component for each invocation, and calls holds <<invocation, call>>.    *)
(***************************************************************************)

Invocations == {1, 2}

\* The instructions of the two invocations: one block each, on different
\* words of the note, or on the same word.
RaceDiffs == {FormatBlock(Foo, Bar), FormatBlock(Baz, Qux), FormatBlock(Foo, Qux)}

InitRace ==
    /\ disk = [p \in VaultPaths |-> IF p = RootNote THEN LongNote ELSE Absent]
    /\ index = {RootNote}
    /\ folders = {}
    /\ isRepo = FALSE
    /\ commits = <<>>
    /\ autoAcceptEdits = TRUE
    /\ op = <<Idle, Idle>>
    /\ result = <<NoValue, NoValue>>
    /\ calls = <<>>
    /\ pre = Snapshot
    /\ nops = 0
    /\ arg = NoValue
    /\ out = NoValue

\* Mutant of WrittenContent: the blocks are applied to what the file holds
\* at the time of the write.
WrittenContent_Reapplied(i) ==
    ApplyBlocks(disk[op[i].path], parseSearchReplaceBlocks(op[i].diff)).modifiedContent

\* The second argument of `app.vault.modify(file, modifiedContent)`: the
\* content the invocation computed from what it read.
WrittenContent(i) == op[i].content

\* Invocation i: handler({path, diff}) up to `await app.vault.read(file)`.
RaceCall(i, path, diff) ==
    /\ op[i].pc = "idle"
    /\ nops < MaxOps
    /\ nops' = nops + 1
    /\ IF ~IsFile(path)
       THEN /\ op' = [op EXCEPT ![i] = [name |-> "replaceInFile", pc |-> "done",
                                        path |-> path, diff |-> diff]]
            /\ result' = [result EXCEPT ![i] = [kind |-> "NotFound", path |-> path]]
       ELSE /\ op' = [op EXCEPT ![i] = [name |-> "replaceInFile", pc |-> "read",
                                        path |-> path, diff |-> diff]]
            /\ result' = [result EXCEPT ![i] = Pending]
    /\ UNCHANGED <<storeVars, calls, pre, pureVars>>

\* Invocation i: from the read of the file to the await of the write.
RaceRead(i) ==
    /\ op[i].pc = "read"
    /\ calls' = calls \o <<<<i, "read">>>>
    /\ LET outcome == ReplaceOutcome(op[i].path, disk[op[i].path], op[i].diff)
       IN  IF outcome.kind # "candidate"
           THEN /\ op' = [op EXCEPT ![i].pc = "done"]
                /\ result' = [result EXCEPT ![i] = outcome]
           ELSE /\ op' = [op EXCEPT ![i] =
                             [@ EXCEPT !.pc = IF autoAcceptEdits THEN "modify" ELSE "preview"]
                                 @@ [originalContent |-> disk[op[i].path],
                                     content |-> outcome.content,
                                     changesApplied |-> outcome.changesApplied]]
                /\ UNCHANGED result
    /\ UNCHANGED <<storeVars, pre, nops, pureVars>>

\* Invocation i: `await app.vault.modify(file, modifiedContent)` and the
\* return after it.
RaceModify(i) ==
    /\ op[i].pc = "modify"
    /\ calls' = calls \o <<<<i, "modify">>>>
    /\ \E written \in BOOLEAN :
        IF written
        THEN /\ disk' = [disk EXCEPT ![op[i].path] = WrittenContent(i)]
             /\ result' = [result EXCEPT ![i] =
                              [kind |-> "json", result |-> "accepted",
                               blocksApplied |-> op[i].changesApplied]]
        ELSE /\ disk' = disk
             /\ result' = [result EXCEPT ![i] =
                              [kind |-> "json", result |-> "failed",
                               blocksApplied |-> op[i].changesApplied]]
    /\ op' = [op EXCEPT ![i].pc = "done"]
    /\ UNCHANGED <<index, folders, isRepo, commits, autoAcceptEdits, pre, nops, pureVars>>

NextRace ==
    \/ \E i \in Invocations, diff \in RaceDiffs : RaceCall(i, RootNote, diff)
    \/ \E i \in Invocations : RaceRead(i)
    \/ \E i \in Invocations : RaceModify(i)

SpecRace == InitRace /\ [][NextRace]_vars

(***************************************************************************)
(* SpecEdit: an instruction of one block, written in a form, parsed and    *)
(* applied to a document, as replaceInFile does between its size gate and  *)
(* its returns.                                                            *)
(***************************************************************************)

\* The documents: one line without and with its line terminator, two words,
\* a document without the letter, an empty line.
EditDocs ==
    { <<"a">>, <<"a", "\n">>, <<"a", " ", "a">>, <<"b", "\n">>, <<"\n">> }

\* The blocks the instructions are written from: every pair of sides, and a
\* block with nothing to search for and a replacement pattern to insert.
WrittenBlocks == {Block(s, r) : s, r \in Sides} \cup {Block(<<" ">>, <<"$", "&">>)}

InitEdit ==
    /\ EmptyStore
    /\ NoHandler
    /\ arg \in [kind : {"edit"}, content : EditDocs, form : Forms, block : WrittenBlocks]
    /\ out = NoValue

\* parseSearchReplaceBlocks(diff), then the loop over the blocks.
RunEdit ==
    /\ arg.kind = "edit"
    /\ out = NoValue
    /\ LET searchReplaceBlocks == parseSearchReplaceBlocks(WriteBlock(arg.form, arg.block))
       IN  out' = [kind |-> "edit", blocks |-> searchReplaceBlocks,
                   loop |-> ApplyBlocks(arg.content, searchReplaceBlocks)]
    /\ UNCHANGED <<storeVars, opVars, arg>>

NextEdit == RunEdit

SpecEdit == InitEdit /\ [][NextEdit]_vars

(***************************************************************************)
(* Properties of the line ending steps (SpecLineEndings).                  *)
(***************************************************************************)

\* A text whose every line terminator is a bare LF.
AllLF(x) == \A i \in 1..Len(x) : x[i] # "\r"

\* A text whose every line terminator is a CRLF pair.
AllCRLF(x) ==
    \A i \in 1..Len(x) :
        /\ x[i] = "\r" => (i < Len(x) /\ x[i + 1] = "\n")
        /\ x[i] = "\n" => (i > 1 /\ x[i - 1] = "\r")

\* A text whose every line terminator is a lone CR.
AllCR(x) == \A i \in 1..Len(x) : x[i] # "\n"

\* C8 as stated: for a text x of a single line ending convention (all LF, all
\* CRLF or all lone CR), restoring the normalized text with the style detected
\* on x gives x back.
C8_RoundTripAnyConvention ==
    (out.kind = "roundtrip" /\ (AllLF(arg.text) \/ AllCRLF(arg.text) \/ AllCR(arg.text)))
        => out.restored = arg.text

\* C8 amended: the round trip gives x back for a text that is all LF or all
\* CRLF; a lone CR is normalized to LF and never restored.
C8_RoundTripLfOrCrlf ==
    (out.kind = "roundtrip" /\ (AllLF(arg.text) \/ AllCRLF(arg.text)))
        => out.restored = arg.text

\* A CRLF text with two terminators went through normalization and came back.
C8_Witness ==
    /\ out.kind = "roundtrip"
    /\ AllCRLF(arg.text)
    /\ crlfCount(arg.text) = 2
    /\ out.usesCrlf
    /\ out.normalized # arg.text
    /\ out.restored = arg.text

(***************************************************************************)
(* Properties of the block loop (SpecApply).                               *)
(***************************************************************************)

\* C7 as stated: when every block of a sequence of at least one applies,
\* every line terminator of the final content has the style detected on the
\* original content: all CRLF if the original is predominantly CRLF, all LF
\* otherwise.
C7_FinalUsesOriginalStyle ==
    (out.kind = "apply" /\ Len(arg.blocks) >= 1 /\ out.loop.ok)
        => IF usesCrlf(arg.content)
           THEN AllCRLF(out.loop.modifiedContent)
           ELSE AllLF(out.loop.modifiedContent)

\* The characters of a text.
Chars(x) == {x[i] : i \in 1..Len(x)}

\* The blocks with both texts normalized, as the loop matches them.
NormalizedBlocks(blocks) ==
    [i \in 1..Len(blocks) |->
        Block(normalizeLineEndings(blocks[i].searchText),
              normalizeLineEndings(blocks[i].replaceText))]

\* The positions of doc an occurrence of s at i covers.
Covered(s, i) == i..(i + Len(s) - 1)

\* No two occurrences of search texts in doc share a position.
NonOverlapping(doc, blocks) ==
    \A i, j \in 1..Len(blocks) :
        \A p \in Occurrences(doc, blocks[i].searchText),
           q \in Occurrences(doc, blocks[j].searchText) :
            (i # j \/ p # q) =>
                Covered(blocks[i].searchText, p) \cap Covered(blocks[j].searchText, q) = {}

\* The hypotheses of C9 on a normalized document and normalized blocks:
\* search texts that are not empty, pairwise not substrings of one another,
\* all present, their occurrences not overlapping.
C9_Hypotheses(doc, blocks) ==
    /\ Len(blocks) >= 1
    /\ \A i \in 1..Len(blocks) : blocks[i].searchText # <<>>
    /\ \A i, j \in 1..Len(blocks) :
           i # j => ~Includes(blocks[j].searchText, blocks[i].searchText)
    /\ \A i \in 1..Len(blocks) : Includes(doc, blocks[i].searchText)
    /\ NonOverlapping(doc, blocks)

\* doc from position pos on, with every occurrence of a block's search text
\* replaced by that block's replace text.
RECURSIVE EveryOccurrenceReplaced(_, _, _)
EveryOccurrenceReplaced(doc, blocks, pos) ==
    IF pos > Len(doc) THEN <<>>
    ELSE LET here == {i \in 1..Len(blocks) : OccursAt(doc, blocks[i].searchText, pos)}
         IN  IF here = {}
             THEN <<doc[pos]>> \o EveryOccurrenceReplaced(doc, blocks, pos + 1)
             ELSE LET b == blocks[SetMin(here)]
                  IN  b.replaceText
                          \o EveryOccurrenceReplaced(doc, blocks, pos + Len(b.searchText))

\* What C9 promises of a run of the loop.
C9_Conclusion ==
    /\ out.loop.ok
    /\ out.loop.changesApplied = Len(arg.blocks)
    /\ normalizeLineEndings(out.loop.modifiedContent)
           = EveryOccurrenceReplaced(normalizeLineEndings(arg.content),
                                     NormalizedBlocks(arg.blocks), 1)

C9_PlainReplacements(blocks) ==
    \A i \in 1..Len(blocks) :
        /\ blocks[i].replaceText # <<>>
        /\ "$" \notin Chars(blocks[i].replaceText)
        /\ \A j \in 1..Len(blocks) :
               Chars(blocks[i].replaceText) \cap Chars(blocks[j].searchText) = {}

ReplaceReturned == op.name = "replaceInFile" /\ op.pc = "done"

\* The call parsed its instruction: it found the file, read it and passed
\* the size gate.
ReplaceParsed == ReplaceReturned /\ result.kind \notin {"NotFound", "Error", "SizeGate"}

\* The content of the call's file when the handler was called.
ContentBefore == pre.disk[op.path]

\* The search text of block b is in doc neither as it is nor with its
\* trailing whitespace stripped, line endings normalized.
AbsentFrom(doc, b) ==
    LET normalizedContent    == normalizeLineEndings(doc)
        normalizedSearchText == normalizeLineEndings(b.searchText)
    IN  /\ ~Includes(normalizedContent, normalizedSearchText)
        /\ ~Includes(normalizedContent, TrimEnd(normalizedSearchText))

\* The call wrote nothing and previewed nothing, and the file reads as it did
\* before the call.
NothingPersisted ==
    /\ \A k \in 1..Len(calls) : calls[k] \notin {"modify", "show_preview"}
    /\ disk = pre.disk

\* C1 as stated: if the search text of any block parsed from the instruction
\* is absent from the document, the call fails naming an absent block's search
\* text, writes and previews nothing, and the document reads as before.
C1_AbsentFromDocumentFails ==
    ReplaceParsed =>
        LET blocks == parseSearchReplaceBlocks(op.diff)
            absent == {i \in 1..Len(blocks) : AbsentFrom(ContentBefore, blocks[i])}
        IN  absent # {} =>
                /\ result.kind = "NoMatch"
                /\ \E i \in absent : result.searchText = blocks[i].searchText
                /\ NothingPersisted

\* The working copy block i is looked up in: the document with the blocks
\* before the i-th applied to it one after the other.
RECURSIVE WorkingCopy(_, _, _)
WorkingCopy(doc, blocks, i) ==
    IF i = 1 THEN doc
    ELSE replaceWithLineEndingAwareness(WorkingCopy(doc, blocks, i - 1),
                                        blocks[i - 1].searchText,
                                        blocks[i - 1].replaceText)

\* The blocks whose search text is absent from the working copy at their
\* turn, all blocks before them having been found.
FirstAbsent(doc, blocks) ==
    {i \in 1..Len(blocks) :
        /\ AbsentFrom(WorkingCopy(doc, blocks, i), blocks[i])
        /\ \A j \in 1..(i - 1) : ~AbsentFrom(WorkingCopy(doc, blocks, j), blocks[j])}

\* C1 amended: if the search text of a block is absent from the working copy
\* the earlier blocks of the call produced (not from the document as it was
\* before the call), the call fails naming that block's search text, writes
\* and previews nothing, and the document reads as before.
C1_AbsentFromWorkingCopyFails ==
    ReplaceParsed =>
        LET blocks == parseSearchReplaceBlocks(op.diff)
        IN  \A i \in FirstAbsent(ContentBefore, blocks) :
                /\ result.kind = "NoMatch"
                /\ result.searchText = blocks[i].searchText
                /\ NothingPersisted

\* A call failed on its second block after its first block had matched.
C1_Witness ==
    /\ ReplaceParsed
    /\ LET blocks == parseSearchReplaceBlocks(op.diff)
       IN  /\ Len(blocks) = 2
           /\ ~AbsentFrom(ContentBefore, blocks[1])
           /\ FirstAbsent(ContentBefore, blocks) = {2}
           /\ WorkingCopy(ContentBefore, blocks, 2) # ContentBefore
    /\ result.kind = "NoMatch"
    /\ disk[op.path] = ContentBefore

\* The instruction text of C10:
\* "------- SEARCH\nfoo\n=======\nbar\n+++++++ REPLACE"
FooToBarDiff == FormatBlock(Foo, Bar)

\* "bar\nbar\nbaz"
BarBarBaz == Bar \o NL \o Bar \o NL \o Baz

\* A replaceInFile call with the instruction of C10 is past its read.
FooToBarCalled == op.name = "replaceInFile" /\ op.diff = FooToBarDiff /\ op.pc # "read"

\* The call computed the candidate content c with n blocks applied; if it
\* has returned, it reports the n blocks, unless the preview could not be
\* opened.
Candidate(c, n) ==
    /\ op.pc \in {"modify", "preview", "awaiting", "done"}
    /\ op.pc = "done" =>
          \/ result.kind = "json" /\ result.blocksApplied = n
          \/ result.kind = "Error" /\ calls = <<"read", "show_preview">>
    /\ op.content = c
    /\ op.changesApplied = n

Padded(head, n) == head \o NL \o Rep("x", n)

Backup == "gitCommitBeforeRiskyAction"

Destructive == {"deleteNote", "moveNote"}

\* The store call that carries out the destructive action of a handler.
StoreCall(name) == IF name = "deleteNote" THEN "trash" ELSE "rename"

\* The positions of a call in the trace of the handler call.
Positions(call) == {i \in DOMAIN calls : calls[i] = call}

\* undoFileOperation was called with a commit of the history.
UndoOf(hash) ==
    /\ op.name = "undoFileOperation"
    /\ op.commitHash = hash
    /\ hash \in 1..Len(commits)

\* The undoFileOperation in hand names the snapshot deleteNote took before
\* it deleted the file the undo asks for.
UndoOfDeleteSnapshot ==
    /\ UndoOf(op.commitHash)
    /\ commits[op.commitHash].message = CommitMessage(DeleteAction(op.filePath))

\* C2: delete-then-recover round trip: undoFileOperation(S, p), called for
\* the snapshot S that deleteNote(p) created and while p is gone, succeeds
\* and leaves at p the content p had immediately before the delete (which is
\* the content S records for p), whether p was committed, modified or never
\* committed at the time of the delete.
C2_DeleteThenRecoverRestores ==
    (/\ op.name = "undoFileOperation"
     /\ op.pc = "done"
     /\ UndoOfDeleteSnapshot
     /\ pre.disk[op.filePath] = Absent
     /\ op.filePath \notin pre.index)
    => /\ result.success
       /\ disk[op.filePath] = commits[op.commitHash].tree[op.filePath]

\* C3: undoFileOperation never overwrites an existing file: a call made
\* while the target path has a file in the vault folder is rejected (with
\* the destination conflict if the commit is a backup snapshot) and leaves
\* the folder as it was.
C3_ExistingFileNeverOverwritten ==
    (/\ op.name = "undoFileOperation"
     /\ op.pc = "done"
     /\ pre.disk[op.filePath] # Absent)
    => /\ ~result.success
       /\ disk = pre.disk
       /\ UndoOfDeleteSnapshot => result.kind = "AlreadyExists"

\* C4: undoFileOperation called with a commit whose message lacks the backup
\* tag never reaches the checkout and returns InvalidSnapshot: the files and
\* folders of the vault and the history stay as they were at the call,
\* whatever the path.
C4_UntaggedCommitRejected ==
    (/\ op.name = "undoFileOperation"
     /\ UndoOf(op.commitHash)
     /\ ~IsBackupCommit(commits[op.commitHash].message))
    => /\ op.pc # "checkout"
       /\ Positions("git checkout") = {}
       /\ disk = pre.disk
       /\ folders = pre.folders
       /\ commits = pre.commits
       /\ op.pc = "done" => result = [kind |-> "InvalidSnapshot", success |-> FALSE]

\* An untagged commit is refused although nothing is at the path and the
\* parent of the commit has the file.
C4_Witness ==
    /\ op.name = "undoFileOperation"
    /\ op.pc = "done"
    /\ op.commitHash \in 2..Len(commits)
    /\ commits[op.commitHash].message = UserMessage
    /\ commits[op.commitHash - 1].tree[op.filePath] # Absent
    /\ pre.disk[op.filePath] = Absent
    /\ op.filePath \notin pre.index
    /\ result.kind = "InvalidSnapshot"

\* C5: a backup failure never blocks the destructive action: once deleteNote
\* or moveNote has attempted the backup, the trash / rename is invoked
\* whatever the attempt gave; outside version control the handler fails only
\* if that store call fails, and otherwise succeeds with gitBackup false and
\* no commit; gitBackup is true only if the call added exactly one commit,
\* tagged, whose tree is the vault as it was before the store call.
C5_BackupNeverBlocks ==
    (/\ op.name \in Destructive
     /\ op.pc = "done"
     /\ Positions(Backup) # {})
    => /\ Positions(StoreCall(op.name)) # {}
       /\ ~isRepo =>
            /\ commits = pre.commits
            /\ \/ result.success /\ result.gitBackup = FALSE /\ disk # pre.disk
               \/ result = [kind |-> "Error", success |-> FALSE] /\ disk = pre.disk
       /\ (result.success /\ result.gitBackup) =>
            /\ Len(commits) = Len(pre.commits) + 1
            /\ SubSeq(commits, 1, Len(pre.commits)) = pre.commits
            /\ IsBackupCommit(commits[Len(commits)].message)
            /\ commits[Len(commits)].tree = pre.disk
       /\ (result.success /\ ~result.gitBackup) => commits = pre.commits

\* A note is deleted outside version control.
C5_Witness ==
    /\ op.name = "deleteNote"
    /\ op.pc = "done"
    /\ ~isRepo
    /\ calls = <<Backup, "trash">>
    /\ result = [kind |-> "Deleted", success |-> TRUE, gitBackup |-> FALSE]
    /\ disk[op.path] = Absent

\* The calls of the set happen only after the backup attempt.
AfterBackup(mutating) ==
    op.name \in Destructive =>
        \A i \in DOMAIN calls :
            calls[i] \in mutating => \E j \in 1..(i - 1) : calls[j] = Backup

\* C6 as stated: in deleteNote and moveNote the backup attempt has completed
\* before any mutating store call of the handler: trash, rename or the
\* creation of the destination folder.
C6_NoStoreMutationBeforeBackup == AfterBackup({"trash", "rename", "createFolder"})

\* C6: in deleteNote and moveNote the backup attempt has completed before
\* the trash / rename; the destination folder of moveNote, when it is
\* missing, is created before the backup attempt.
C6_BackupBeforeTrashOrRename ==
    /\ AfterBackup({"trash", "rename"})
    /\ op.name \in Destructive =>
        \A i \in Positions("createFolder") : \A j \in Positions(Backup) : i < j

\* A note is moved into a folder that moveNote had to create.
C6_Witness ==
    /\ op.name = "moveNote"
    /\ op.pc = "done"
    /\ calls = <<"createFolder", Backup, "rename">>
    /\ result.success
    /\ disk[op.destinationPath] = pre.disk[op.sourcePath]

(***************************************************************************)
(* Properties of the parser (SpecParse).                                   *)
(***************************************************************************)

Parsed == arg.kind = "parse" /\ out.kind = "parse"

\* No side of the blocks starts or ends with white space.
NoOuterWhiteSpace(blocks) ==
    \A i \in DOMAIN blocks :
        /\ Trim(blocks[i].searchText) = blocks[i].searchText
        /\ Trim(blocks[i].replaceText) = blocks[i].replaceText

\* C11 as stated: in every form, an instruction written from k blocks with
\* non-empty sides free of marker characters parses to exactly these k
\* blocks, in order.
C11_ParsesToTheBlocksWritten == Parsed => out.blocks = arg.blocks

\* C11: in every form (glued, LF lines, CR LF lines), an instruction written
\* from k blocks with non-empty sides free of marker characters parses to k
\* blocks, in order, whose sides are the sides written with the white space
\* at their ends removed: the blocks written, if no side starts or ends with
\* white space.
C11_ParsesToTheTrimmedBlocks ==
    Parsed =>
        /\ out.blocks = [i \in DOMAIN arg.blocks |->
                            Block(Trim(arg.blocks[i].searchText),
                                  Trim(arg.blocks[i].replaceText))]
        /\ NoOuterWhiteSpace(arg.blocks) => out.blocks = arg.blocks

\* Two blocks glued into one line parse to the two blocks.
C11_Witness ==
    /\ Parsed
    /\ arg.form = "glued"
    /\ Len(arg.blocks) = 2
    /\ arg.blocks[1] # arg.blocks[2]
    /\ out.blocks = arg.blocks

(***************************************************************************)
(* Properties of the preview and of writeToFile (SpecWrite).               *)
(***************************************************************************)

\* The handler in hand opened a preview.
Previewed == "promise" \in DOMAIN op

\* C12: a preview produces its decision exactly once: the promise of
\* show_preview is settled as soon as the callback has been invoked, with
\* the decision of the first invocation, whatever was passed to later
\* invocations; the handler returns only after the first invocation, and
\* what it returned is that decision, also after the callback has been
\* invoked again.
C12_DecisionOfFirstCallback ==
    Previewed =>
        /\ op.decisions = <<>> => op.promise.state = "pending" /\ op.pc = "awaiting"
        /\ op.decisions # <<>> =>
               /\ op.promise = [state |-> "fulfilled", value |-> op.decisions[1]]
               /\ op.pc = "done" =>
                      result.kind = "json" /\ result.result = op.decisions[1]

\* The callback was invoked twice with different decisions before the
\* handler went on, and the handler returned the first.
C12_Witness ==
    /\ Previewed
    /\ op.name = "writeToFile"
    /\ op.pc = "done"
    /\ Len(op.decisions) = 2
    /\ op.decisions[1] # op.decisions[2]
    /\ result = [kind |-> "json", result |-> op.decisions[1]]

\* The handler in hand runs with review disabled: writeToFile by the setting
\* or by confirmation = false, replaceInFile by the setting.
Bypassed ==
    \/ op.name = "writeToFile" /\ (autoAcceptEdits \/ ~op.confirmation)
    \/ op.name = "replaceInFile" /\ autoAcceptEdits

\* C13: with review disabled the handler never opens the preview and calls
\* app.vault.modify at most once, with the candidate content; it reports
\* "accepted" only if that write was made, after which the file holds the
\* candidate, and "failed" if getFile or the write threw, after which the
\* file holds what it held (or is the empty file getFile created); it never
\* reports "rejected", and writeToFile reports nothing else.
C13_BypassWritesDirectly ==
    Bypassed =>
        /\ ~Previewed
        /\ op.pc \notin {"preview", "awaiting"}
        /\ Positions("show_preview") = {}
        /\ Cardinality(Positions("modify")) <= 1
        /\ op.pc = "done" =>
            /\ op.name = "writeToFile" => result.kind = "json"
            /\ result.kind = "json" =>
                /\ result.result \in {"accepted", "failed"}
                /\ result.result = "accepted" =>
                       /\ Positions("modify") # {}
                       /\ disk[op.path] = op.content
                /\ (result.result = "failed" /\ op.path \in DOMAIN disk) =>
                       disk[op.path] \in {pre.disk[op.path], <<>>}
            /\ result.kind # "json" => Positions("modify") = {} /\ disk = pre.disk

\* writeToFile, asked by its caller to skip the review that the settings
\* ask for, created the file and wrote it.
C13_Witness ==
    /\ op.name = "writeToFile"
    /\ op.pc = "done"
    /\ ~autoAcceptEdits
    /\ ~op.confirmation
    /\ pre.disk[op.path] = Absent
    /\ calls = <<"getFile", "modify">>
    /\ result = [kind |-> "json", result |-> "accepted"]
    /\ disk[op.path] = op.content

(***************************************************************************)
(* Properties of the returns of replaceInFile (SpecReplace).               *)
(***************************************************************************)

\* The call found its file and read it.
ReplaceRead == ReplaceReturned /\ result.kind \notin {"NotFound", "Error"}

\* The loop of the call, over the blocks of its instruction.
LoopOfCall == ApplyBlocks(ContentBefore, parseSearchReplaceBlocks(op.diff))

\* C14: if every block of the instruction is found and the content after the
\* last block equals the original content, also when blocks changed the
\* working copy and later blocks changed it back, replaceInFile returns the
\* no-change outcome, which is neither the not-found outcome nor a decision,
\* and calls neither the write nor the preview; it returns that outcome in
\* no other case.
C14_NoOpOutcome ==
    ReplaceParsed =>
        LET blocks == parseSearchReplaceBlocks(op.diff)
        IN  /\ (blocks # <<>> /\ LoopOfCall.ok /\ LoopOfCall.modifiedContent = ContentBefore)
                   => /\ result = [kind |-> "NoChanges", path |-> op.path]
                      /\ NothingPersisted
            /\ result.kind = "NoChanges"
                   => /\ blocks # <<>>
                      /\ LoopOfCall.ok
                      /\ LoopOfCall.modifiedContent = ContentBefore

\* Two blocks changed the working copy and the second restored the original.
C14_Witness ==
    /\ ReplaceParsed
    /\ LoopOfCall.ok
    /\ LoopOfCall.changesApplied = 2
    /\ result.kind = "NoChanges"
    /\ NothingPersisted

\* C15: replaceInFile on a document it found and read that is shorter than
\* MIN_FILE_SIZE_FOR_REPLACE returns the size gate outcome whatever the
\* instruction is - one with no block, with a block that is not found, with
\* blocks that change nothing, or with blocks that apply - and calls neither
\* the write nor the preview; a document of the threshold size or longer
\* never gets that outcome.
C15_SizeGateFirst ==
    ReplaceRead =>
        /\ Len(ContentBefore) < MIN_FILE_SIZE_FOR_REPLACE
               => result = [kind |-> "SizeGate"] /\ NothingPersisted
        /\ Len(ContentBefore) >= MIN_FILE_SIZE_FOR_REPLACE => result.kind # "SizeGate"

\* A document one character short of the threshold is rejected although the
\* instruction has no block.
C15_Witness ==
    /\ ReplaceRead
    /\ Len(ContentBefore) = MIN_FILE_SIZE_FOR_REPLACE - 1
    /\ parseSearchReplaceBlocks(op.diff) = <<>>
    /\ result.kind = "SizeGate"

\* Instruction texts with no complete block: no marker at all, and a SEARCH
\* marker and a separator with no REPLACE marker after them.
NoBlockDiffs ==
    { Foo \o NL \o Bar,
      Rep("-", 7) \o <<" ">> \o SEARCH_WORD \o NL \o Foo \o NL \o Rep("=", 7) \o NL \o Bar }

\* C16: an instruction with no complete block parses to the empty list, and
\* replaceInFile, on a document that passes the size gate, returns for an
\* empty list the failure that names the markers, calling neither the write
\* nor the preview.
C16_EmptyParseReported ==
    (ReplaceRead /\ ~TooSmall(ContentBefore)) =>
        /\ op.diff \in NoBlockDiffs => parseSearchReplaceBlocks(op.diff) = <<>>
        /\ parseSearchReplaceBlocks(op.diff) = <<>>
               => /\ result = [kind |-> "NoBlocks", diff |-> op.diff]
                  /\ NothingPersisted
        /\ result.kind = "NoBlocks" => parseSearchReplaceBlocks(op.diff) = <<>>

\* The instruction that lacks the REPLACE marker was reported.
C16_Witness ==
    /\ ReplaceRead
    /\ Len(op.diff) > Len(Foo \o NL \o Bar)
    /\ op.diff \in NoBlockDiffs
    /\ result.kind = "NoBlocks"
    /\ NothingPersisted

(***************************************************************************)
(* Failures of collaborators (SpecWrite).                                  *)
(***************************************************************************)

\* C17: every failure is returned, never raised: whatever collaborator fails
\* (getFile on a folder, the creation of the file or of its folder, the read
\* or the write of the store), a handler that has ended has returned a value
\* and no exception has escaped it.
C17_FailuresAreReturned == op.pc = "done" => result # Raised

(***************************************************************************)
(* Rejected requests (Spec).                                               *)
(***************************************************************************)

\* The handler in hand was called with a path at which the vault has no
\* file (nothing, or a folder), or is a moveNote to a destination at which
\* the vault has something.
CalledOnNoFile ==
    \/ op.name \in {"replaceInFile", "deleteNote"} /\ op.path \notin pre.index
    \/ op.name = "moveNote" /\ op.sourcePath \notin pre.index

CalledOnTakenDestination ==
    /\ op.name = "moveNote"
    /\ op.sourcePath \in pre.index
    /\ op.destinationPath \in pre.index \cup pre.folders

Listed ==
    /\ op.name = "listRecentFileOperations"
    /\ op.pc = "done"
    /\ isRepo
    /\ op.limit >= 0

\* The positions in the history of the commits whose message carries the tag.
TaggedCommits == {i \in 1..Len(commits) : IsBackupCommit(commits[i].message)}

\* The result is successful and its records are the `limit` most recent
\* tagged commits, newest first.
ListsMostRecentTagged ==
    /\ result.kind = "List"
    /\ result.success
    /\ LET operations == result.operations
           at(k) == Len(operations[k].hash)
       IN  /\ Len(operations) <= op.limit
           /\ Len(operations) =
                  IF op.limit < Cardinality(TaggedCommits)
                  THEN op.limit ELSE Cardinality(TaggedCommits)
           /\ \A k \in 1..Len(operations) :
                  /\ at(k) \in TaggedCommits
                  /\ operations[k].index = k
                  /\ operations[k].fullMessage = commits[at(k)].message
                  /\ \A j \in 1..Len(operations) : j < k => at(j) > at(k)
                  /\ \A i \in TaggedCommits :
                         i > at(k) => \E j \in 1..Len(operations) : at(j) = i

\* C19: listRecentFileOperations(limit) returns at most `limit` records, which
\* are exactly the `limit` most recent commits whose message carries the tag
\* [Auto-backup], newest first; commits without the tag never appear; and a
\* history with no tagged commit gives a successful result with an empty list.
C19_ListsMostRecentTagged ==
    Listed =>
        /\ ListsMostRecentTagged
        /\ TaggedCommits = {} => result.operations = <<>>


\* The paths of the backups of SpecList.
ListPaths ==
    {RootNote, ArchivedNote, DeletingFolderNote, MovingFolderNote, ArrowNote, BarNote}

\* The record of a listing made of the commit at position i of the history.
RecordsOf(i) ==
    {result.operations[k] :
        k \in {j \in 1..Len(result.operations) : Len(result.operations[j].hash) = i}}

\* C20: the backup message round trip. For every snapshot made by
\* deleteNote(p) the listing gives actionType delete and filePath p; for every
\* snapshot made by moveNote(s, d) it gives actionType move, filePath s and
\* destPath d; a tagged message of neither template gives actionType unknown.
\* This for all paths, those that hold " -> ", "|" or the words of the other
\* template included.
C20_BackupMessageRoundTrip ==
    (Listed /\ result.kind = "List") =>
        \A i \in 1..Len(commits) : \A record \in RecordsOf(i) :
            LET message == commits[i].message
            IN  /\ \A p \in ListPaths :
                       message = CommitMessage(DeleteAction(p)) =>
                           /\ record.actionType = "delete"
                           /\ record.filePath = PathText(p)
                /\ \A s, d \in ListPaths :
                       message = CommitMessage(MoveAction(s, d)) =>
                           /\ record.actionType = "move"
                           /\ record.filePath = PathText(s)
                           /\ record.destPath = PathText(d)
                /\ message = CommitMessage(<<"Manual snapshot">>) =>
                       record.actionType = "unknown"


(***************************************************************************)
(* The history as a recovery log (SpecHistory).                            *)
(***************************************************************************)

\* The commit a step has added to the history.
NewCommit == commits'[Len(commits')]

\* A step keeps every commit of the history at its position (its hash, and
\* so its parent) with its message and its recorded files, and adds at most
\* one commit.
HistoryKept ==
    /\ Len(commits') \in {Len(commits), Len(commits) + 1}
    /\ \A i \in 1..Len(commits) : commits'[i] = commits[i]

\* A step that adds a commit is the backup of deleteNote or of moveNote.
OnlyBackupsAppend ==
    Len(commits') > Len(commits) =>
        \/ /\ op.name = "deleteNote"
           /\ op.pc = "backup"
           /\ NewCommit.message = CommitMessage(DeleteAction(op.path))
        \/ /\ op.name = "moveNote"
           /\ op.pc = "backup"
           /\ NewCommit.message =
                  CommitMessage(MoveAction(op.sourcePath, op.destinationPath))

NotInWorkingCopy(doc, blocks) ==
    {i \in 1..Len(blocks) :
        ~Includes(normalizeLineEndings(WorkingCopy(doc, blocks, i)),
                  normalizeLineEndings(blocks[i].searchText))}

\* C22: within one call the blocks are applied in parse order against one
\* evolving working copy. Block i is looked up in the content blocks 1..i-1
\* produced, not in the original: the loop ends without a failure exactly
\* when every block is found in its working copy, its content is then the
\* working copy after the last block, and otherwise it fails at the first
\* block that is not found. So a search text an earlier block introduced is
\* found, and one an earlier block removed is not.
C22_BlocksInOrderOnWorkingCopy ==
    out.kind = "apply" =>
        LET doc    == arg.content
            blocks == arg.blocks
            absent == NotInWorkingCopy(doc, blocks)
            loop   == out.loop
        IN  /\ IF absent = {}
               THEN /\ loop.ok
                    /\ loop.modifiedContent = WorkingCopy(doc, blocks, Len(blocks) + 1)
               ELSE /\ ~loop.ok
                    /\ loop.failedAt = SetMin(absent)
                    /\ loop.modifiedContent = WorkingCopy(doc, blocks, SetMin(absent))
            /\ \A i \in 2..Len(blocks) :
                   LET inOriginal == Includes(normalizeLineEndings(doc),
                                              normalizeLineEndings(blocks[i].searchText))
                   IN  /\ (~inOriginal /\ i \notin absent /\ absent \cap 1..i = {})
                           => (loop.ok \/ loop.failedAt > i)
                       /\ (inOriginal /\ i = SetMin(absent \cup {Len(blocks) + 1}))
                           => (~loop.ok /\ loop.failedAt = i)

\* The second of two blocks was found though its search text is not in the
\* original document: the first block brought it in.
C22_Witness ==
    /\ out.kind = "apply"
    /\ Len(arg.blocks) = 2
    /\ ~Includes(normalizeLineEndings(arg.content),
                 normalizeLineEndings(arg.blocks[2].searchText))
    /\ out.loop.ok
    /\ out.loop.changesApplied = 2


\* The specified procedure from block i on: the working text is normalized
\* text throughout; a block is matched and replaced in it, with the retry on
\* texts stripped of trailing white space, and counted if the working text
\* changed.
RECURSIVE SpecifiedFrom(_, _, _, _)
SpecifiedFrom(blocks, i, working, applied) ==
    IF i > Len(blocks) THEN [ok |-> TRUE, working |-> working, applied |-> applied]
    ELSE LET search   == normalizeLineEndings(blocks[i].searchText)
             replaced == normalizeLineEndings(blocks[i].replaceText)
             found    == Includes(working, search)
             foundEnd == Includes(working, TrimEnd(search))
             after    == IF found THEN replaceAll(working, search, replaced)
                         ELSE replaceAll(working, TrimEnd(search), TrimEnd(replaced))
         IN  IF ~found /\ ~foundEnd
             THEN [ok |-> FALSE, working |-> working, applied |-> applied]
             ELSE SpecifiedFrom(blocks, i + 1, after,
                                IF after # working THEN applied + 1 ELSE applied)

\* The specified procedure: the style is detected once on the original
\* text, every block is matched and replaced on normalized text, and the
\* line endings are restored once at the end in the style of the original.
SpecifiedApply(doc, blocks) ==
    LET run == SpecifiedFrom(blocks, 1, normalizeLineEndings(doc), 0)
    IN  [ok |-> run.ok,
         modifiedContent |-> restoreLineEndings(run.working, usesCrlf(doc)),
         changesApplied |-> run.applied]

\* C23: the per-block procedure of the code (detect the style on the current
\* working content, normalize, replace, restore, for each block) is
\* equivalent to the specified procedure: for every document and every
\* sequence of one block or more both fail or both succeed, and when they succeed they
\* give the same final content and the same number of blocks applied.
C23_PerBlockEqualsSpecified ==
    (out.kind = "apply" /\ Len(arg.blocks) >= 1) =>
        LET specified == SpecifiedApply(arg.content, arg.blocks)
        IN  /\ out.loop.ok = specified.ok
            /\ out.loop.ok =>
                   /\ out.loop.modifiedContent = specified.modifiedContent
                   /\ out.loop.changesApplied = specified.changesApplied


(***************************************************************************)
(* What undoFileOperation restores (Spec).                                 *)
(***************************************************************************)

\* undoFileOperation has returned, having been called with a commit of the
\* history.
UndoReturned ==
    /\ op.name = "undoFileOperation"
    /\ op.pc = "done"
    /\ UndoOf(op.commitHash)

\* The commit has a parent.
HasParent(hash) == hash - 1 \in 1..Len(commits)

\* The files of the parent of a commit; no file if it has no parent.
ParentTree(hash) ==
    IF HasParent(hash) THEN commits[hash - 1].tree
    ELSE [path \in VaultPaths |-> Absent]

\* What C24 promises of an undo that has returned.
UndoContract ==
    LET p      == op.filePath
        parent == ParentTree(op.commitHash)
        tagged == IsBackupCommit(commits[op.commitHash].message)
    IN  /\ result.success =>
            /\ result.kind = "Recovered"
            /\ parent[p] # Absent
            /\ disk = [pre.disk EXCEPT ![p] = parent[p]]
        /\ ~result.success => disk = pre.disk
        /\ (Positions("git checkout") # {} /\ parent[p] = Absent) =>
               result = [kind |-> "NotInHistory", success |-> FALSE]
        /\ ~tagged => result.kind = "InvalidSnapshot"
        /\ result.kind = "AlreadyExists" => tagged
        /\ result.kind \in {"InvalidSnapshot", "AlreadyExists"} => calls = <<"git log">>
        /\ Positions("git checkout") # {} =>
               /\ tagged
               /\ calls = <<"git log", "git checkout">>

Edited == arg.kind = "edit" /\ out.kind = "edit" /\ Len(out.blocks) = 1

\* normalizedContent.includes(normalizedSearchText), the first lookup.
FirstLookup(content, block) ==
    Includes(normalizeLineEndings(content), normalizeLineEndings(block.searchText))

\* normalizedContent.includes(normalizedSearchText.trimEnd()), the retry.
RetryLookup(content, block) ==
    Includes(normalizeLineEndings(content), TrimEnd(normalizeLineEndings(block.searchText)))

\* The block is applied as it is if the first lookup finds it, with both
\* texts stripped of trailing white space if only the retry finds it, and
\* the loop fails at it, the content untouched, if neither does.
RetryRule(content, block, loop) ==
    /\ loop.ok = (FirstLookup(content, block) \/ RetryLookup(content, block))
    /\ FirstLookup(content, block) =>
           loop.modifiedContent =
               replaceWithLineEndingAwareness(content, block.searchText, block.replaceText)
    /\ (~FirstLookup(content, block) /\ RetryLookup(content, block)) =>
           loop.modifiedContent =
               replaceWithLineEndingAwareness(content, TrimEnd(block.searchText),
                                              TrimEnd(block.replaceText))
    /\ ~loop.ok => (loop.failedAt = 1 /\ loop.modifiedContent = content)

\* Among the documents, forms and blocks of SpecEdit there is an instruction
\* whose block the first lookup misses and the retry finds.
SomeInstructionNeedsRetry ==
    \E content \in EditDocs, form \in Forms, s \in Sides, r \in Sides :
        LET blocks == parseSearchReplaceBlocks(WriteBlock(form, Block(s, r)))
        IN  /\ Len(blocks) = 1
            /\ ~FirstLookup(content, blocks[1])
            /\ RetryLookup(content, blocks[1])

ReturnedAfterCallback ==
    (Previewed /\ op.pc = "done" /\ result.kind = "json") => op.decisions # <<>>

\* A step taken while the handler waits and the callback has not been
\* invoked leaves the handler waiting, nothing returned.
SuspendedUntilCallback ==
    (Previewed /\ op.pc = "awaiting" /\ op.decisions = <<>>)
        => (op'.pc = "awaiting" /\ result' = result)

\* The handler waits, the callback invoked with decision first.
DecidedWaiting(decision) ==
    /\ Previewed
    /\ op.pc = "awaiting"
    /\ op.decisions # <<>>
    /\ op.decisions[1] = decision

\* The handler has returned a result that carries decision.
ReturnedDecision(decision) ==
    /\ Previewed
    /\ op.pc = "done"
    /\ result.kind = "json"
    /\ result.result = decision

\* C26: on the preview path writeToFile and replaceInFile stay suspended
\* until the preview surface invokes the resolution callback. The handler
\* never returns a result before the callback is invoked; as long as the
\* callback is not invoked no step makes it return (there is no timeout);
\* and once the callback has been invoked the handler eventually returns a
\* result that carries that decision.
C26_SuspendedUntilDecided ==
    /\ []ReturnedAfterCallback
    /\ [][SuspendedUntilCallback]_vars
    /\ \A decision \in PreviewDecisions :
           DecidedWaiting(decision) ~> ReturnedDecision(decision)

\* replaceInFile has returned the rejection the preview surface decided.
C26_Witness ==
    /\ op.name = "replaceInFile"
    /\ ReturnedDecision("rejected")
    /\ op.decisions = <<"rejected">>


(***************************************************************************)
(* Two invocations on one note (SpecRace).                                 *)
(***************************************************************************)

\* Both invocations have returned "accepted".
BothAccepted ==
    \A i \in Invocations :
        /\ op[i].pc = "done"
        /\ result[i].kind = "json"
        /\ result[i].result = "accepted"

\* The invocation whose write came last.
LastWriter == calls[Len(calls)][1]

\* What the blocks of an invocation make of a content.
BlocksOn(i, content) ==
    ApplyBlocks(content, parseSearchReplaceBlocks(op[i].diff)).modifiedContent

\* C27: nothing excludes two replaceInFile invocations on one document from
\* interleaving at their awaited store calls. When both have reported
\* "accepted", the content stored is what the last writer computed from the
\* content it had read; so when both had read the same original, the stored
\* content is the original with the blocks of the last writer only, and the
\* blocks of the other invocation are lost.
C27_LastWriterWins ==
    BothAccepted =>
        /\ disk[RootNote] = BlocksOn(LastWriter, op[LastWriter].originalContent)
        /\ (op[1].originalContent = op[2].originalContent) =>
               /\ op[1].originalContent = pre.disk[RootNote]
               /\ disk[RootNote] = BlocksOn(LastWriter, pre.disk[RootNote])

\* A lost update: both invocations read the same original, both reported
\* "accepted", each having applied a block the other did not, and the note
\* holds the word the first writer had replaced.
C27_Witness ==
    /\ BothAccepted
    /\ op[1].originalContent = op[2].originalContent
    /\ op[1].diff = FormatBlock(Foo, Bar)
    /\ op[2].diff = FormatBlock(Baz, Qux)
    /\ LastWriter = 2
    /\ disk[RootNote] = BlocksOn(2, pre.disk[RootNote])
    /\ disk[RootNote] # BlocksOn(2, BlocksOn(1, pre.disk[RootNote]))
    /\ Includes(disk[RootNote], Foo)
    /\ ~Includes(disk[RootNote], Bar)


(***************************************************************************)
(* Literal replacement (SpecApply).                                        *)
(***************************************************************************)

\* The number of blocks the loop has applied when it ends.
BlocksDone(loop, blocks) == IF loop.ok THEN Len(blocks) ELSE loop.failedAt - 1

\* C28: replacement is literal. When a block applies, every occurrence of
\* its normalized search text in the normalized working content is replaced
\* by exactly its normalized replace text, character for character, for
\* every replace text, those that hold "$" sequences included.
C28_ReplacementIsLiteral ==
    out.kind = "apply" =>
        \A i \in 1..BlocksDone(out.loop, arg.blocks) :
            normalizeLineEndings(WorkingCopy(arg.content, arg.blocks, i + 1))
                = ReplaceLiteral(normalizeLineEndings(WorkingCopy(arg.content, arg.blocks, i)),
                                 normalizeLineEndings(arg.blocks[i].searchText),
                                 normalizeLineEndings(arg.blocks[i].replaceText))


(***************************************************************************)
(* A block with nothing to search for (SpecEdit).                          *)
(***************************************************************************)

\* The text r before each character of c and at its end.
RECURSIVE InsertedEverywhere(_, _)
InsertedEverywhere(c, r) ==
    IF c = <<>> THEN r
    ELSE r \o <<Head(c)>> \o InsertedEverywhere(Tail(c), r)

\* C29: a parsed block whose search text is empty after trimming is always
\* treated as found, never as missing; applying it inserts its replace text
\* at every position of the normalized working content, before each
\* character and at the end; and it counts as applied whenever its replace
\* text is not empty.
C29_EmptySearchInsertsEverywhere ==
    (Edited /\ out.blocks[1].searchText = <<>>) =>
        /\ out.loop.ok
        /\ normalizeLineEndings(out.loop.modifiedContent)
               = InsertedEverywhere(normalizeLineEndings(arg.content),
                                    normalizeLineEndings(out.blocks[1].replaceText))
        /\ out.blocks[1].replaceText # <<>> => out.loop.changesApplied = 1


(***************************************************************************)
(* The store on the preview path (SpecWrite).                              *)
(***************************************************************************)

\* C30: on the preview path the handler and show_preview create no file and
\* write no content: when a call that went through the preview has returned
\* "rejected" or "failed", the files, the index and the folders of the vault
\* are as they were at the call, for every target path, a path that did not
\* exist at the call included.
C30_PreviewPathLeavesStore ==
    (/\ Previewed
     /\ op.pc = "done"
     /\ result.kind = "json"
     /\ result.result \in {"rejected", "failed"})
    => /\ disk = pre.disk
       /\ index = pre.index
       /\ folders = pre.folders

=============================================================================
